---- MODULE Spec2Model ----
(***************************************************************************)
(* A model of the IIR filter-set pipeline of lalinspiral/src/LALInspiralIIR.c *)
(*                                                                         *)
(*   XLALInspiralGenerateIIRSet   the synthesizer: one call is the prologue *)
(*                                (GenCall), then one GenIterate per pass   *)
(*                                of the while loop, then GenReturn         *)
(*   XLALInspiralIIRSetResponse   the evaluator: RespCall, then one         *)
(*                                RespFilter per filter, then RespReturn    *)
(*                                                                         *)
(* Numbers.  The routines compute in REAL8; the model computes in exact    *)
(* rational arithmetic on integers:                                        *)
(*   - a phase sample is a whole number p of cycles, phase = 2 pi p, so    *)
(*     the "/ LAL_TWOPI" stencils are integer (or half-integer) stencils;  *)
(*   - epsilon and alpha are fractions [num, den], beta is an integer;     *)
(*   - floor(sqrt(x) + 0.5) and floor(cbrt(x) + 0.5) are computed exactly  *)
(*     by the integer search RoundRoot;                                    *)
(*   - a complex number is kept in polar form: a decay coefficient a1 is   *)
(*     number is [mag, lnum, lden, ang] for                                *)
(*     mag * exp(lnum/lden) * e^(i ang u), with u = 2 pi / 12 the unit the *)
(*     "/ 6" and "/ 12" first-derivative stencils share.  Products add     *)
(*     exponents and angles, a quotient subtracts them; a sum of complex   *)
(*     numbers is a bag of polar terms.                                    *)
(* REAL8 rounding is not modelled.  A conversion of a REAL8 outside the    *)
(* range of int (infinite or too large) is undefined in C: the model       *)
(* draws its outcome from the values the builds produce, INT_MIN (x86)     *)
(* and INT_MAX (saturating conversions).                                   *)
(***************************************************************************)
EXTENDS Integers, Sequences, FiniteSets, Bags, TLC

VARIABLES gen, twin, rsp, again, ip, scaled, lut, dm, th, look, ppn, am

vars == <<gen, twin, rsp, again, ip, scaled, lut, dm, th, look, ppn, am>>

\* the state a call of XLALInspiralGenerateIIRSet leaves alone, and the state
\* a call of XLALInspiralIIRSetResponse leaves alone
notGenerator == <<rsp, again, ip, scaled, lut, dm, th, look, ppn, am>>

notEvaluator == <<gen, twin, ip, scaled, lut, dm, th, look, ppn, am>>

\* the state a call of XLALInspiralCalculateIIRSetInnerProduct leaves alone
notInnerProduct == <<gen, twin, rsp, again, lut, dm, th, look, ppn, am>>

\* the state a call of TestLALDemod leaves alone
notDemod == <<gen, twin, rsp, again, ip, scaled, th, look, ppn, am>>

\* the state the threads of a partitioned bin loop leave alone
notThreads == <<gen, twin, rsp, again, ip, scaled, dm, look, ppn, am>>

\* the state one evaluation of the two table lookups of TestLALDemod leaves alone
notLookup == <<gen, twin, rsp, again, ip, scaled, dm, th, ppn, am>>

\* the state a call of LALGeneratePPNAmpCorInspiral leaves alone
notPpn == <<gen, twin, rsp, again, ip, scaled, lut, dm, th, look, am>>

\* the state a call of LALGetMultiCmplxAMCoeffs leaves alone
notAm == <<gen, twin, rsp, again, ip, scaled, lut, dm, th, look, ppn>>

(***************************************************************************)
(* Bounds of the model and constants of the program                        *)
(***************************************************************************)
MaxN == 9

MaxL == 3

MaxFilters == 2

MaxBins == 2

MaxSegments == 2

MaxIndex == 4

MaxCalls == 2

\* the threads a bin loop is partitioned across
NThreads == 2

\* TestLALDemod: the resolution of the lookup tables
LUT_RES == 64

\* a REAL8 of TestLALDemod is a whole part and a fraction in units of
\* 1 / FracRes; a table value is a fixed-point number in units of 1 / Scale
FracRes == 2 * LUT_RES

Myriad == 10000

Scale == Myriad * Myriad

LAL_TWOPI == 628318531

LAL_PI == 314159265

\* REAL4 keeps 24 bits of a whole number
FloatBits == 16777216

\* REAL8 keeps 53 bits: 1 - 2^-e is a REAL8 for e <= MantissaBits
MantissaBits == 53

\* the whole parts of the phases one lookup is evaluated for
MaxWhole == 2

\* the longest lengthIn of LALGeneratePPNAmpCorInspiral
MaxLengthIn == 5

\* the buffers the heap can hold
MaxBuffers == 4

\* the samples of one buffer, 1024 in the program: the loop only compares
\* counters with it, so a short buffer shows every case
BUFFSIZE == 2

\* the detectors of a MultiDetectorStateSeries
MaxDetectors == 3

IntMax == 2147483647

\* (UINT4)(-1), line 1650: larger than every count the heap allows; the model
\* holds it as the largest integer it can compare
NMaxUnlimited == IntMax

IntMin == -IntMax - 1

XLAL_EINVAL == 22

XLAL_EBADLEN == 10

LengthNumerator == 29

\* the values an out-of-range REAL8 -> int conversion of a positive number yields
CastOutcomes == {IntMin, IntMax}

\* element i (counted from 0, as in C) of a vector
At(v, i) == v[i + 1]

Abs(x) == IF x < 0 THEN -x ELSE x

(***************************************************************************)
(* Inputs: the envelopes and parameters a caller may pass                  *)
(***************************************************************************)
\* phase envelopes: polynomial chirps c1 i + c2 i^2 + c3 i^3 (in cycles);
\* a linear one has phase_ddot = phase_tdot = 0, so both step candidates
\* are infinite and the conversion to int is out of range
PhaseEnvelope(n, c1, c2, c3) == [x \in 1..n |-> c1 * (x - 1) + c2 * (x - 1) * (x - 1) + c3 * (x - 1) * (x - 1) * (x - 1)]

PhaseSet(n) == {PhaseEnvelope(n, c1, c2, c3) : c1 \in {1}, c2 \in {0, 1}, c3 \in {-1, 0, 1}}

\* amplitude envelopes: a ramp
AmpEnvelope(n) == [x \in 1..n |-> x]

\* epsilon > 0 and alpha >= 0, as the contract of the routine asks
EpsilonSet == {[num |-> 1, den |-> 2], [num |-> 9, den |-> 1], [num |-> 40, den |-> 1]}

AlphaSet == {[num |-> 0, den |-> 1], [num |-> 1, den |-> 2], [num |-> 1, den |-> 1], [num |-> 2, den |-> 1]}

BetaSet == {-1, 0, 1}

PaddingSet == {-1, 0}

FlagSet == {0, 1}

\* the state of one call of XLALInspiralGenerateIIRSet before it is made:
\* outptr tells whether *a1, *b0, *delay still hold the caller's pointers
\* chosen is jstep as lines 88-100 leave it, jstep as lines 104-107 do
\* and reads the samples of amp and phase read so far
GenIdle == [pc |-> "idle", amp |-> <<>>, phase |-> <<>>, epsilon |-> [num |-> 1, den |-> 1], alpha |-> [num |-> 0, den |-> 1], beta |-> 0, padding |-> 0, iir_type_flag |-> 0, j |-> 0, jstep |-> 0, chosen |-> 0, k |-> 0, nfilters |-> 0, a1 |-> <<>>, b0 |-> <<>>, delay |-> <<>>, outptr |-> "caller", warned |-> FALSE, reads |-> {}, ret |-> 0]

RspIdle == [pc |-> "idle"]

(***************************************************************************)
(* XLALInspiralGenerateIIRSet                                              *)
(***************************************************************************)
\* floor(root_e(num/den) + 0.5) for num >= 0, den > 0, e in {2, 3}: the
\* largest n with (2n - 1)^e * den <= 2^e * num, or 0; searched upward from n
RECURSIVE RoundRoot(_, _, _, _)
RoundRoot(e, num, den, n) == LET m == 2 * n + 1
                                 p == IF e = 2 THEN m * m ELSE m * m * m
                                 s == IF e = 2 THEN 4 ELSE 8
                             IN IF p * den <= s * num THEN RoundRoot(e, num, den, n + 1) ELSE n

\* phase_ddot after fabs, in cycles per sample^2
phase_ddot(r) == LET j == r.j
                    ph == r.phase
                IN IF j > Len(ph) - 3
                   THEN Abs(At(ph, j - 2) - 2 * At(ph, j - 1) + At(ph, j))
                   ELSE Abs(At(ph, j - 1) - 2 * At(ph, j) + At(ph, j + 1))

\* phase_tdot after fabs, as a fraction (the centred stencil has halves)
phase_tdot(r) == LET j == r.j
                    ph == r.phase
                IN IF j > Len(ph) - 3
                   THEN [num |-> Abs(At(ph, j - 3) - 3 * At(ph, j - 2) + 3 * At(ph, j - 1) - At(ph, j)), den |-> 1]
                   ELSE [num |-> Abs(-At(ph, j - 2) + 2 * At(ph, j - 1) - 2 * At(ph, j + 1) + At(ph, j + 2)), den |-> 2]

\* jstep_second = floor(sqrt(2 epsilon / phase_ddot) + 0.5); inf when phase_ddot = 0
jstep_second(r) == LET d == phase_ddot(r)
                  IN IF d = 0 THEN [inf |-> TRUE, val |-> 0]
                     ELSE [inf |-> FALSE, val |-> RoundRoot(2, 2 * r.epsilon.num, d * r.epsilon.den, 0)]

\* jstep_third = floor(pow(6 epsilon / phase_tdot, 1/3) + 0.5); inf when phase_tdot = 0
jstep_third(r) == LET t == phase_tdot(r)
                 IN IF t.num = 0 THEN [inf |-> TRUE, val |-> 0]
                    ELSE [inf |-> FALSE, val |-> RoundRoot(3, 6 * r.epsilon.num * t.den, t.num * r.epsilon.den, 0)]

\* the comparison jstep_third > jstep_second of two REAL8 that may be +inf
ThirdGreater(third, second) == IF third.inf THEN ~second.inf
                               ELSE IF second.inf THEN FALSE ELSE third.val > second.val

\* (int) of a non-negative REAL8: ub is the outcome when it does not fit
CastStep(x, ub) == IF x.inf \/ x.val > IntMax THEN ub ELSE x.val

\* the floor of lines 98-100 taken at 1 instead of 2
ChooseJstep_FloorOne(r, ub) == LET second == jstep_second(r)
                                   third == jstep_third(r)
                                   cast == IF ThirdGreater(third, second) THEN CastStep(second, ub) ELSE CastStep(third, ub)
                               IN IF cast < 1 THEN 1 ELSE cast

\* lines 88-100: the smaller candidate, cast to int, then floored at 2
ChooseJstep(r, ub) == LET second == jstep_second(r)
                          third == jstep_third(r)
                          cast == IF ThirdGreater(third, second) THEN CastStep(second, ub) ELSE CastStep(third, ub)
                      IN IF cast < 2 THEN 2 ELSE cast

\* k = (int) floor(j - alpha * jstep + 0.5), for jstep >= 0.  With
\* jstep = den * q + m this is j - num * q + floor((den - 2 num m) / (2 den));
\* when num * q is beyond the range of int so is the REAL8, and its
\* conversion yields INT_MIN on the builds above
AnchorIndex(j, alpha, jstep) == LET q == jstep \div alpha.den
                                   m == jstep % alpha.den
                               IN IF alpha.num = 0 THEN j
                                  ELSE IF q > IntMax \div alpha.num THEN IntMin
                                  ELSE j - alpha.num * q + ((alpha.den - 2 * alpha.num * m) \div (2 * alpha.den))

\* element i of a vector as a read finds it: a read outside the vector
\* yields a stray value
Sample(v, i) == IF i >= 0 /\ i < Len(v) THEN At(v, i) ELSE 0

\* the centred stencil taken from k = 1 on
FrequencyStencil_CentredFromOne(n, k) == IF k > n - 3 THEN "backward" ELSE IF k >= 1 THEN "centred" ELSE "forward"

\* lines 115-121: the stencil of phase_dot at k, for an envelope of n samples
FrequencyStencil(n, k) == IF k > n - 3 THEN "backward" ELSE IF k >= 2 THEN "centred" ELSE "forward"

\* the samples a stencil reads, as offsets from k
StencilOffsets(stencil) == IF stencil = "backward" THEN (-3)..0
                           ELSE IF stencil = "centred" THEN {-2, -1, 1, 2}
                           ELSE 0..3

\* phase_dot at k, in units of 1/12 cycle per sample (lines 115-123)
phase_dot(r, k) == LET ph == r.phase
                      stencil == FrequencyStencil(Len(r.amp), k)
                  IN IF stencil = "backward"
                     THEN 2 * (11 * Sample(ph, k) - 18 * Sample(ph, k - 1) + 9 * Sample(ph, k - 2) - 2 * Sample(ph, k - 3))
                     ELSE IF stencil = "centred"
                     THEN -Sample(ph, k + 2) + 8 * (Sample(ph, k + 1) - Sample(ph, k - 1)) + Sample(ph, k - 2)
                     ELSE 2 * (-11 * Sample(ph, k) + 18 * Sample(ph, k + 1) - 9 * Sample(ph, k + 2) + 2 * Sample(ph, k + 3))

\* lines 74-81: the samples of phase the two curvature stencils read at j
CurvatureReads(r) == {<<"phase", i>> : i \in IF r.j > Len(r.phase) - 3 THEN (r.j - 3)..r.j ELSE (r.j - 2)..(r.j + 2)}

\* lines 115-123 and 136: the samples the frequency stencil reads at k, and
\* amp[k] and phase[k]
FrequencyReads(r, k) == {<<"phase", k + o>> : o \in StencilOffsets(FrequencyStencil(Len(r.amp), k))}
                          \cup {<<"amp", k>>, <<"phase", k>>}

\* the sign of the exponent slipped: exp(beta / jstep)
DecayCoefficient_SignSlip(beta, jstep, pd) == [mag |-> 1, lnum |-> beta, lden |-> jstep, ang |-> -pd]

\* line 135: cpolar(exp(-beta / jstep), -phase_dot)
DecayCoefficient(beta, jstep, pd) == [mag |-> 1, lnum |-> -beta, lden |-> jstep, ang |-> -pd]

\* line 136: cpolar(amp[k], phase[k] + phase_dot * (j - k))
GainCoefficient(r, j, k, pd) == [mag |-> At(r.amp, k), lnum |-> 0, lden |-> 1, ang |-> 12 * At(r.phase, k) + pd * (j - k)]

\* the cursor itself stored as the delay
DelayOf_Unreversed(r, j) == j

\* line 137: amp->length - 1 - j
DelayOf(r, j) == Len(r.amp) - 1 - j

\* lines 104-107: the step after the forced case jstep = j
ForcedStep(j, jstep, k) == IF k < 1 THEN j ELSE jstep

\* the output vectors created before the length check
GenPrologue_CreateFirst(in) == LET base == [GenIdle EXCEPT !.amp = in.amp, !.phase = in.phase, !.epsilon = in.epsilon, !.alpha = in.alpha, !.beta = in.beta, !.padding = in.padding, !.iir_type_flag = 1, !.j = Len(in.amp) - 1, !.warned = in.padding < 0, !.outptr = "vector"]
                               IN IF Len(in.amp) # Len(in.phase)
                                  THEN [base EXCEPT !.pc = "error", !.ret = XLAL_EINVAL]
                                  ELSE [base EXCEPT !.pc = "loop"]

\* an unsupported padding treated as an invalid argument, not as a warning
GenPrologue_PaddingFatal(in) == LET base == [GenIdle EXCEPT !.amp = in.amp, !.phase = in.phase, !.epsilon = in.epsilon, !.alpha = in.alpha, !.beta = in.beta, !.padding = in.padding, !.iir_type_flag = 1, !.j = Len(in.amp) - 1, !.warned = in.padding < 0]
                                IN IF in.padding < 0 \/ Len(in.amp) # Len(in.phase)
                                   THEN [base EXCEPT !.pc = "error", !.ret = XLAL_EINVAL]
                                   ELSE [base EXCEPT !.pc = "loop", !.outptr = "vector"]

\* the cursor started one sample below the end of the envelope
GenPrologue_FromSecondLast(in) == LET base == [GenIdle EXCEPT !.amp = in.amp, !.phase = in.phase, !.epsilon = in.epsilon, !.alpha = in.alpha, !.beta = in.beta, !.padding = in.padding, !.iir_type_flag = 1, !.j = Len(in.amp) - 2, !.warned = in.padding < 0]
                                  IN IF Len(in.amp) # Len(in.phase)
                                     THEN [base EXCEPT !.pc = "error", !.ret = XLAL_EINVAL]
                                     ELSE [base EXCEPT !.pc = "loop", !.outptr = "vector"]

\* lines 47-68: the prologue of a call with arguments in
GenPrologue(in) == LET warn == in.padding < 0
                       base == [GenIdle EXCEPT !.amp = in.amp, !.phase = in.phase, !.epsilon = in.epsilon, !.alpha = in.alpha, !.beta = in.beta, !.padding = in.padding, !.iir_type_flag = 1, !.j = Len(in.amp) - 1, !.warned = warn]
                   IN IF Len(in.amp) # Len(in.phase)
                      THEN [base EXCEPT !.pc = "error", !.ret = XLAL_EINVAL]
                      ELSE [base EXCEPT !.pc = "loop", !.outptr = "vector"]

\* the delay vector left as it was, not resized with the other two
AppendRecord_DelayNotResized(r, a, b, d) == [r EXCEPT !.a1 = Append(r.a1, a), !.b0 = Append(r.b0, b)]

\* lines 130-137: the three vectors are resized to nfilters and the record stored
AppendRecord(r, a, b, d) == [r EXCEPT !.a1 = Append(r.a1, a), !.b0 = Append(r.b0, b), !.delay = Append(r.delay, d)]

\* lines 71-145: one pass of the while loop, entered with j > 3
GenBody(r, ub) == LET j == r.j
                      jstep1 == ChooseJstep(r, ub)
                      k1 == AnchorIndex(j, r.alpha, jstep1)
                      jstep == ForcedStep(j, jstep1, k1)
                      k == IF k1 < 1 THEN AnchorIndex(j, r.alpha, jstep) ELSE k1
                      pd == phase_dot(r, k)
                      s == [r EXCEPT !.jstep = jstep, !.chosen = jstep1, !.k = k, !.nfilters = r.nfilters + 1,
                                     !.reads = @ \cup CurvatureReads(r)]
                  IN IF k < 0
                     THEN [s EXCEPT !.pc = "error", !.ret = XLAL_EINVAL]
                     ELSE [AppendRecord(s, DecayCoefficient(r.beta, jstep, pd), GainCoefficient(r, j, k, pd), DelayOf(r, j))
                             EXCEPT !.reads = @ \cup FrequencyReads(r, k),
                                    !.j = IF k < 2 THEN j ELSE j - jstep,
                                    !.pc = IF k < 2 THEN "exit" ELSE "loop"]

\* the next state of a call that is under way: a pass of the loop, or the
\* return at line 147 once the loop condition fails or the break was taken
GenStep(r, ub) == IF r.pc = "loop" /\ r.j > 3 THEN GenBody(r, ub)
                  ELSE IF r.pc \in {"loop", "exit"} THEN [r EXCEPT !.pc = "done", !.ret = 0]
                  ELSE r

GenRunning(r) == r.pc \in {"loop", "exit"}

\* the arguments of a call: the phase vector is as long as amp, or one longer
GenInputs == {[amp |-> AmpEnvelope(n), phase |-> ph, epsilon |-> e, alpha |-> al, beta |-> be, padding |-> pa, iir_type_flag |-> fl] :
                n \in 0..MaxN, ph \in UNION {PhaseSet(m) : m \in 0..(MaxN + 1)}, e \in EpsilonSet, al \in AlphaSet, be \in BetaSet, pa \in PaddingSet, fl \in FlagSet}

GenCall == /\ gen.pc = "idle"
           /\ \E in \in GenInputs :
                /\ Len(in.phase) \in {Len(in.amp), Len(in.amp) + 1}
                /\ gen' = GenPrologue(in)
           /\ UNCHANGED <<twin, notGenerator>>

GenIterate == /\ gen.pc = "loop"
              /\ gen.j > 3
              /\ \E ub \in CastOutcomes : gen' = GenBody(gen, ub)
              /\ UNCHANGED <<twin, notGenerator>>

\* line 147: the loop condition failed, or the break at line 140 was taken
GenReturn == /\ \/ gen.pc = "loop" /\ ~(gen.j > 3)
                \/ gen.pc = "exit"
             /\ gen' = GenStep(gen, IntMin)
             /\ UNCHANGED <<twin, notGenerator>>

\* two calls that differ only in padding and iir_type_flag, run side by side
PairCall == /\ gen.pc = "idle"
            /\ twin.pc = "idle"
            /\ \E in \in GenInputs, pa \in PaddingSet, fl \in FlagSet :
                 /\ Len(in.phase) \in {Len(in.amp), Len(in.amp) + 1}
                 /\ gen' = GenPrologue(in)
                 /\ twin' = GenPrologue([in EXCEPT !.padding = pa, !.iir_type_flag = fl])
            /\ UNCHANGED notGenerator

PairStep == /\ GenRunning(gen) \/ GenRunning(twin)
            /\ \E ub \in CastOutcomes :
                 /\ gen' = GenStep(gen, ub)
                 /\ twin' = GenStep(twin, ub)
            /\ UNCHANGED notGenerator

(***************************************************************************)
(* Complex arithmetic in polar form                                        *)
(***************************************************************************)
RECURSIVE Gcd(_, _)
Gcd(a, b) == IF b = 0 THEN Abs(a) ELSE Gcd(b, a % b)

\* the fraction num/den (den > 0) in lowest terms
Fraction(num, den) == LET g == Gcd(num, den) IN [num |-> num \div g, den |-> den \div g]

FractionSum(x, y) == LET g == Gcd(x.den, y.den)
                     IN Fraction(x.num * (y.den \div g) + y.num * (x.den \div g), (x.den \div g) * y.den)

Polar(mag, exponent, ang) == [mag |-> mag, lnum |-> exponent.num, lden |-> exponent.den, ang |-> ang]

ExponentOf(z) == Fraction(z.lnum, z.lden)

\* x * y, and x / y for a divisor exp(l) e^(i t) of unit mag
ComplexProduct(x, y) == Polar(x.mag * y.mag, FractionSum(ExponentOf(x), ExponentOf(y)), x.ang + y.ang)

ComplexQuotient(x, y) == Polar(x.mag, FractionSum(ExponentOf(x), Fraction(-y.lnum, y.lden)), x.ang - y.ang)

\* z^n for n >= 0 and z of unit mag
ComplexPower(z, n) == Polar(1, Fraction(n * z.lnum, z.lden), n * z.ang)

(***************************************************************************)
(* XLALInspiralIIRSetResponse                                              *)
(***************************************************************************)
\* the recursion started from b0 itself
InitialY_NoDivision(b, a) == b

\* line 168: y = *b0f / *a1f
InitialY(b, a) == ComplexQuotient(b, a)

\* line 169: length = (int) (logf(1e-13)) / logf(cabs(*a1f)): the cast binds
\* to logf(1e-13) alone, giving -29; the REAL4 quotient -29 / log|a1| is then
\* converted to int, truncating toward zero.  log|a1| = lnum/lden; the
\* conversion is out of range (ub) when |a1| = 1 or the quotient is too large
TruncationLength(a, ub) == IF a.lnum = 0 THEN ub
                           ELSE IF a.lden \div Abs(a.lnum) > IntMax \div LengthNumerator THEN ub
                           ELSE IF a.lnum < 0 THEN (LengthNumerator * a.lden) \div (-a.lnum)
                           ELSE -((LengthNumerator * a.lden) \div a.lnum)

\* the prologue without the memset
RespPrologue_NoMemset(in) == LET base == [pc |-> "loop", a1 |-> in.a1, b0 |-> in.b0, delay |-> in.delay, response |-> in.response, prior |-> in.response, numFilters |-> 0, f |-> 0, uncapped |-> <<>>, length |-> <<>>, wrote |-> <<>>, ret |-> 0]
                             IN IF Len(in.a1) # Len(in.b0) \/ Len(in.a1) # Len(in.delay)
                                THEN [base EXCEPT !.pc = "error", !.ret = XLAL_EBADLEN]
                                ELSE [base EXCEPT !.numFilters = Len(in.a1)]

\* the cap taken at the length of the whole buffer
CapLength_WholeBuffer(length, L, d) == IF length > L THEN L ELSE length

\* lines 171-173: the cap at maxlength = response->length - delay
CapLength(length, L, d) == LET maxlength == L - d IN IF length > maxlength THEN maxlength ELSE length

\* lines 178-182: the inner loop, n passes left, writing at index i (from 0).
\* A write at an index outside [0, L) is outside response->data: the model
\* records it in wrote and leaves the buffer alone
RECURSIVE Accumulate(_, _, _, _, _)
Accumulate(acc, y, a, i, n) == IF n <= 0 THEN acc
                               ELSE LET y1 == ComplexProduct(y, a)
                                        buf == IF i >= 0 /\ i < Len(acc.response)
                                               THEN [acc.response EXCEPT ![i + 1] = @ (+) SetToBag({y1})]
                                               ELSE acc.response
                                    IN Accumulate([response |-> buf, wrote |-> acc.wrote \cup {i}], y1, a, i + 1, n - 1)

\* the buffer zeroed before the length check
RespPrologue_ZeroFirst(in) == LET base == [pc |-> "loop", a1 |-> in.a1, b0 |-> in.b0, delay |-> in.delay, response |-> [m \in 1..Len(in.response) |-> EmptyBag], prior |-> in.response, numFilters |-> 0, f |-> 0, uncapped |-> <<>>, length |-> <<>>, wrote |-> <<>>, ret |-> 0]
                              IN IF Len(in.a1) # Len(in.b0) \/ Len(in.a1) # Len(in.delay)
                                 THEN [base EXCEPT !.pc = "error", !.ret = XLAL_EBADLEN]
                                 ELSE [base EXCEPT !.numFilters = Len(in.a1)]

\* lines 156-165: the length check, then the memset and numFilters
RespPrologue(in) == LET base == [pc |-> "loop", a1 |-> in.a1, b0 |-> in.b0, delay |-> in.delay, response |-> in.response, prior |-> in.response, numFilters |-> 0, f |-> 0, uncapped |-> <<>>, length |-> <<>>, wrote |-> <<>>, ret |-> 0]
                    IN IF Len(in.a1) # Len(in.b0) \/ Len(in.a1) # Len(in.delay)
                       THEN [base EXCEPT !.pc = "error", !.ret = XLAL_EBADLEN]
                       ELSE [base EXCEPT !.response = [m \in 1..Len(in.response) |-> EmptyBag], !.numFilters = Len(in.a1)]

\* lines 166-185: one pass of the outer loop, for filter f (from 0)
RespBody(r, ub) == LET a == At(r.a1, r.f)
                       b == At(r.b0, r.f)
                       d == At(r.delay, r.f)
                       uncapped == TruncationLength(a, ub)
                       length == CapLength(uncapped, Len(r.response), d)
                       acc == Accumulate([response |-> r.response, wrote |-> {}], InitialY(b, a), a, d, length)
                   IN [r EXCEPT !.response = acc.response, !.uncapped = Append(@, uncapped), !.length = Append(@, length), !.wrote = Append(@, acc.wrote), !.f = @ + 1]

\* the filter sets and buffers a caller may pass: decay coefficients below 1
\* (slow and fast decay), of modulus 1 and above 1
DecaySet == {[mag |-> 1, lnum |-> -1, lden |-> 2, ang |-> -5], [mag |-> 1, lnum |-> -20, lden |-> 1, ang |-> 1], [mag |-> 1, lnum |-> 0, lden |-> 3, ang |-> 2], [mag |-> 1, lnum |-> 1, lden |-> 2, ang |-> 0]}

GainVector(n) == [x \in 1..n |-> [mag |-> x + 1, lnum |-> 0, lden |-> 1, ang |-> 7 * x]]

Garbage == SetToBag({[mag |-> 99, lnum |-> 0, lden |-> 1, ang |-> 0]})

\* the delay vectors for n filters and a buffer of length L: every vector of
\* n delays from -1 to L+1, and one vector that is one too long
DelayVectors(n, L) == [1..n -> -1..(L + 1)] \cup {[x \in 1..(n + 1) |-> 0]}

RespInputsOf(n, L) == {[a1 |-> a, b0 |-> GainVector(nb), delay |-> d, response |-> [m \in 1..L |-> fill]] :
                         a \in [1..n -> DecaySet], nb \in {n, n + 1}, d \in DelayVectors(n, L), fill \in {EmptyBag, Garbage}}

RespCall == /\ rsp.pc = "idle"
            /\ \E n \in 0..MaxFilters, L \in 0..MaxL : \E in \in RespInputsOf(n, L) : rsp' = RespPrologue(in)
            /\ UNCHANGED <<again, notEvaluator>>

RespFilter == /\ rsp.pc = "loop"
              /\ rsp.f < rsp.numFilters
              /\ \E ub \in CastOutcomes : rsp' = RespBody(rsp, ub)
              /\ UNCHANGED <<again, notEvaluator>>

\* line 186
RespReturn == /\ rsp.pc = "loop"
              /\ ~(rsp.f < rsp.numFilters)
              /\ rsp' = [rsp EXCEPT !.pc = "done", !.ret = 0]
              /\ UNCHANGED <<again, notEvaluator>>

\* a call that passes the length check, with every delay inside [0, L]
TwiceInputsOf(n, L) == {[a1 |-> a, b0 |-> GainVector(n), delay |-> d, response |-> [m \in 1..L |-> fill]] :
                          a \in [1..n -> DecaySet], d \in [1..n -> 0..L], fill \in {EmptyBag, Garbage}}

TwiceCall == /\ rsp.pc = "idle"
             /\ \E n \in 0..MaxFilters, L \in 0..MaxL : \E in \in TwiceInputsOf(n, L) : rsp' = RespPrologue(in)
             /\ UNCHANGED <<again, notEvaluator>>

\* one build converts one out-of-range value the same way in every call
SameBuild(ub, first) == first \in CastOutcomes => ub = first

\* a second call with the same filter set, on the buffer the first call left
AgainCall == /\ rsp.pc = "done"
             /\ again.pc = "idle"
             /\ again' = RespPrologue([a1 |-> rsp.a1, b0 |-> rsp.b0, delay |-> rsp.delay, response |-> rsp.response])
             /\ UNCHANGED <<rsp, notEvaluator>>

AgainFilter == /\ again.pc = "loop"
               /\ again.f < again.numFilters
               /\ \E ub \in CastOutcomes :
                    /\ SameBuild(ub, At(rsp.uncapped, again.f))
                    /\ again' = RespBody(again, ub)
               /\ UNCHANGED <<rsp, notEvaluator>>

AgainReturn == /\ again.pc = "loop"
               /\ ~(again.f < again.numFilters)
               /\ again' = [again EXCEPT !.pc = "done", !.ret = 0]
               /\ UNCHANGED <<rsp, notEvaluator>>

(***************************************************************************)
(* XLALInspiralGenerateIIRSetFourierTransform and                          *)
(* XLALInspiralCalculateIIRSetInnerProduct                                 *)
(*                                                                         *)
(* The transform of one filter at one frequency bin is kept as the terms   *)
(* the code builds it from: angles are fractions of a cycle, log|a1| is a  *)
(* fraction, and crect(x, y) is the pair of its parts.  |hA|^2 is kept as  *)
(* the bag hA of the transforms summed, and *ip as the bag of the          *)
(* quotients |hA|^2 / (psd[j] * length) added to it.                       *)
(***************************************************************************)
\* lines 196-205: pf = 2 pi j / jmax, scl = cpolar(0.5, -pf (jmax - delay)),
\* ft = b0 / crect(-loga1, -arga1 - pf), ftconj = conj(b0) / crect(-loga1, arga1 - pf),
\* hfcos = scl (ft + ftconj), hfsin = scl (ft - ftconj)
FourierTransform(j, jmax, a, b, d) ==
    LET loga1 == Fraction(a.lnum, a.lden)
        scl == [mag |-> Fraction(1, 2), ang |-> Fraction(-(j * (jmax - d)), jmax)]
        ft == [num |-> b, re |-> Fraction(-loga1.num, loga1.den), im |-> Fraction(-(a.ang * jmax) - 12 * j, 12 * jmax)]
        ftconj == [num |-> [b EXCEPT !.ang = -b.ang], re |-> Fraction(-loga1.num, loga1.den), im |-> Fraction(a.ang * jmax - 12 * j, 12 * jmax)]
    IN [hfcos |-> [scl |-> scl, ft |-> ft, ftconj |-> ftconj, sign |-> 1],
        hfsin |-> [scl |-> scl, ft |-> ft, ftconj |-> ftconj, sign |-> -1]]

IpIdle == [pc |-> "idle"]

\* lines 212-217: the locals, and *ip = 0.0
IpPrologue(in) == [pc |-> "loop", a1 |-> in.a1, b0 |-> in.b0, delay |-> in.delay, psd |-> in.psd, prior |-> in.ip, j |-> 0, hA |-> EmptyBag, ip |-> EmptyBag, oob |-> {}, ret |-> 0]

\* lines 222-226: the loop over the a1->length filters, from filter k on.  A
\* read of b0->data[k] or delay->data[k] at k past the length of the vector is
\* outside the vector: it yields a stray value and is recorded in oob
RECURSIVE InnerLoop(_, _, _, _)
InnerLoop(acc, r, k, stray) ==
    IF ~(k < Len(r.a1)) THEN acc
    ELSE LET b == IF k < Len(r.b0) THEN At(r.b0, k) ELSE stray.b0
             d == IF k < Len(r.delay) THEN At(r.delay, k) ELSE stray.delay
             out == (IF k < Len(r.b0) THEN {} ELSE {<<"b0", k>>}) \cup (IF k < Len(r.delay) THEN {} ELSE {<<"delay", k>>})
             hfcos == FourierTransform(r.j, 2 * Len(r.psd), At(r.a1, k), b, d).hfcos
         IN InnerLoop([hA |-> acc.hA (+) SetToBag({hfcos}), oob |-> acc.oob \cup out], r, k + 1, stray)

\* line 227 without the PSD sample
BinTerm_NoPsd(hA, psdj, length) == [num |-> hA, den |-> length]

\* line 227: cabs(hA) * cabs(hA) / (psd->data[j] * length)
BinTerm(hA, psdj, length) == [num |-> hA, den |-> psdj * length]

\* lines 221-227: one pass of the loop over the bins, for bin j
IpBody(r, stray) == LET inner == InnerLoop([hA |-> EmptyBag, oob |-> r.oob], r, 0, stray)
                    IN [r EXCEPT !.hA = inner.hA, !.oob = inner.oob, !.j = @ + 1,
                                 !.ip = @ (+) SetToBag({BinTerm(inner.hA, At(r.psd, r.j), Len(r.psd))})]

IpStep(r, stray) == IF r.pc = "loop" /\ r.j < Len(r.psd) THEN IpBody(r, stray)
                    ELSE IF r.pc = "loop" THEN [r EXCEPT !.pc = "done", !.ret = 0]
                    ELSE r

\* what a read outside b0 or delay may find
StraySet == {[b0 |-> [mag |-> 99, lnum |-> 0, lden |-> 1, ang |-> 0], delay |-> 0], [b0 |-> [mag |-> 0, lnum |-> 0, lden |-> 1, ang |-> 0], delay |-> 1]}

\* two of the decay coefficients of DecaySet
DecayPair == {a \in DecaySet : a.lden = 2}

\* what *ip may hold before the call
PriorIp == {EmptyBag, SetToBag({BinTerm(EmptyBag, 1, 1)})}

PsdSet(length) == [1..length -> 1..2]

\* filter banks of n filters; nb and nd are the lengths of b0 and delay
BankSet(n, nb, nd) == {[a1 |-> a, b0 |-> GainVector(nb), delay |-> d] : a \in [1..n -> DecayPair], d \in [1..nd -> 0..1]}

IpInput(bank, psd, prior) == [a1 |-> bank.a1, b0 |-> bank.b0, delay |-> bank.delay, psd |-> psd, ip |-> prior]

\* lengths of b0 and delay for n filters: equal to n, or off by one
Shapes(n) == {sh \in {<<n, n>>, <<n + 1, n>>, <<n, n + 1>>, <<n - 1, n>>, <<n, n - 1>>} : sh[1] >= 0 /\ sh[2] >= 0}

IpCall == /\ ip.pc = "idle"
          /\ \E n \in 0..MaxFilters, length \in 0..MaxBins : \E sh \in Shapes(n) :
               \E bank \in BankSet(n, sh[1], sh[2]), psd \in PsdSet(length), prior \in PriorIp :
                  ip' = IpPrologue(IpInput(bank, psd, prior))
          /\ UNCHANGED <<scaled, notInnerProduct>>

IpBin == /\ ip.pc = "loop"
         /\ ip.j < Len(ip.psd)
         /\ \E stray \in StraySet : ip' = IpBody(ip, stray)
         /\ UNCHANGED <<scaled, notInnerProduct>>

\* line 230
IpReturn == /\ ip.pc = "loop"
            /\ ~(ip.j < Len(ip.psd))
            /\ ip' = [ip EXCEPT !.pc = "done", !.ret = 0]
            /\ UNCHANGED <<scaled, notInnerProduct>>

ScaleSet == {2, 3}

\* two calls on one filter bank, the second with every PSD sample times c
ScaledCall == /\ ip.pc = "idle"
              /\ scaled.pc = "idle"
              /\ \E n \in 0..MaxFilters, length \in 0..MaxBins :
                   \E bank \in BankSet(n, n, n), psd \in PsdSet(length), p1 \in PriorIp, p2 \in PriorIp, c \in ScaleSet :
                      /\ ip' = IpPrologue(IpInput(bank, psd, p1))
                      /\ scaled' = IpPrologue(IpInput(bank, [m \in 1..length |-> c * psd[m]], p2)) @@ [c |-> c]
              /\ UNCHANGED notInnerProduct

ScaledStep == /\ ip.pc = "loop" \/ scaled.pc = "loop"
              /\ \E stray \in StraySet :
                   /\ ip' = IpStep(ip, stray)
                   /\ scaled' = IpStep(scaled, stray)
              /\ UNCHANGED notInnerProduct

(***************************************************************************)
(* TestLALDemod                                                            *)
(*                                                                         *)
(* A finite REAL8 is [int, frac] for int + frac / FracRes with             *)
(* 0 <= frac < FracRes; infinities and NaN are the one value NonFinite.    *)
(* The values of the lookup tables, tsin, tcos and Q are fixed-point       *)
(* numbers in units of 1 / Scale.  A sample of the SFT data is kept by its *)
(* place <<alpha, index>>; sums of products are bags of their terms.       *)
(***************************************************************************)
R8(int, frac) == [fin |-> TRUE, int |-> int, frac |-> frac]

NonFinite == [fin |-> FALSE, int |-> 0, frac |-> 0]

R8Add(x, y) == IF ~x.fin \/ ~y.fin THEN NonFinite
               ELSE [fin |-> TRUE, int |-> x.int + y.int + (x.frac + y.frac) \div FracRes, frac |-> (x.frac + y.frac) % FracRes]

\* n * x for a whole number n
R8Times(n, x) == IF ~x.fin THEN NonFinite
                 ELSE [fin |-> TRUE, int |-> n * x.int + (n * x.frac) \div FracRes, frac |-> (n * x.frac) % FracRes]

R8Negative(x) == x.fin /\ x.int < 0

\* x * y / Scale for fixed-point x and y, in pieces that stay inside 32 bits
MulAbs(x, y) == LET xh == x \div Myriad
                    xl == x % Myriad
                    yh == y \div Myriad
                    yl == y % Myriad
                IN xh * yh + (xh * yl + xl * yh) \div Myriad + (xl * yl) \div Scale

MulFix(x, y) == IF (x < 0) = (y < 0) THEN MulAbs(Abs(x), Abs(y)) ELSE -MulAbs(Abs(x), Abs(y))

\* sin(2 pi m / FracRes) for m = 0 .. FracRes / 4, in units of 1 / Scale
QuarterSine == <<0, 4906767, 9801714, 14673047, 19509032, 24298018, 29028468, 33688985, 38268343, 42755509, 47139674,
                 51410274, 55557023, 59569930, 63439328, 67155895, 70710678, 74095113, 77301045, 80320753, 83146961,
                 85772861, 88192126, 90398929, 92387953, 94154407, 95694034, 97003125, 98078528, 98917651, 99518473,
                 99879546, 100000000>>

\* sin(2 pi m / FracRes) and cos(2 pi m / FracRes) as the C library gives them
Sine(m) == LET r == m % FracRes
               h == FracRes \div 2
           IN IF r <= h \div 2 THEN QuarterSine[r + 1]
              ELSE IF r <= h THEN QuarterSine[h - r + 1]
              ELSE IF r <= h + h \div 2 THEN -QuarterSine[r - h + 1]
              ELSE -QuarterSine[FracRes - r + 1]

Cosine(m) == Sine(m + FracRes \div 4)

TableSize == LUT_RES + LUT_RES \div 4 + 1

\* lines 70-77: the statics as the loader leaves them, all zero, firstCall = 1;
\* fills counts the passes through lines 105-118 and calls the calls made
LutInit == [firstCall |-> TRUE, fills |-> 0, calls |-> 0,
            sinVal |-> [k \in 0..(TableSize - 1) |-> 0],
            sinVal2PI |-> [k \in 0..(TableSize - 1) |-> 0],
            sinVal2PIPI |-> [k \in 0..(TableSize - 1) |-> 0],
            divLUTtab |-> [k \in 0..LUT_RES |-> 0]]

\* the tables filled on every call
FillTables_EveryCall(l) == LET sv == [k \in 0..(TableSize - 1) |-> Sine(2 * k)]
                               sv2 == [k \in 0..(TableSize - 1) |-> MulFix(sv[k], LAL_TWOPI)]
                           IN [firstCall |-> FALSE, fills |-> l.fills + 1, calls |-> l.calls, sinVal |-> sv, sinVal2PI |-> sv2,
                               sinVal2PIPI |-> [k \in 0..(TableSize - 1) |-> MulFix(sv2[k], LAL_PI)],
                               divLUTtab |-> [k \in 0..LUT_RES |-> 2 * k]]

\* lines 104-118: the tables filled if firstCall is set; divLUTtab[k] = k / LUT_RES
\* is kept in units of 1 / FracRes
FillTables(l) == IF ~l.firstCall THEN l
                 ELSE LET sv == [k \in 0..(TableSize - 1) |-> Sine(2 * k)]
                          sv2 == [k \in 0..(TableSize - 1) |-> MulFix(sv[k], LAL_TWOPI)]
                      IN [firstCall |-> FALSE, fills |-> l.fills + 1, calls |-> l.calls, sinVal |-> sv, sinVal2PI |-> sv2,
                          sinVal2PIPI |-> [k \in 0..(TableSize - 1) |-> MulFix(sv2[k], LAL_PI)],
                          divLUTtab |-> [k \in 0..LUT_RES |-> 2 * k]]

\* a table entry; an index outside the table reads a stray value
TableAt(tab, k) == IF k \in DOMAIN tab THEN tab[k] ELSE 0

\* the values an out-of-range REAL8 -> UINT4 conversion of a negative number
\* yields: 0 on the builds that saturate; on the builds that wrap, 2^32 less
\* the magnitude, an index above every table, for which IntMax - TableSize stands
IndexOutcomes == {0, IntMax - TableSize}

\* lines 198-203 and 223-226: the index of the nearest table entry for the
\* fraction t (in units of 1 / FracRes), idx = t * LUT_RES + .5 converted to
\* UINT4; the conversion of a value <= -1 is out of range (ub)
LutIndex(t, ub) == LET num == 2 * t * LUT_RES + FracRes
                       den == 2 * FracRes
                   IN IF num >= 0 THEN num \div den ELSE IF -num < den THEN 0 ELSE ub

\* d * d * v for the distance d in units of 1 / FracRes
Quadratic(d, v) == (d * ((d * (v \div FracRes)) \div FracRes))

\* lines 199-202 and 224-225: sinVal[idx] + d * cosVal2PI[idx] - d2 * sinVal2PIPI[idx]
LutSin(l, t, idx) == LET d == t - TableAt(l.divLUTtab, idx)
                     IN TableAt(l.sinVal, idx) + (d * TableAt(l.sinVal2PI, idx + LUT_RES \div 4)) \div FracRes
                          - Quadratic(d, TableAt(l.sinVal2PIPI, idx))

\* lines 203 and 226: cosVal[idx] - d * sinVal2PI[idx] - d2 * cosVal2PIPI[idx]
LutCos(l, t, idx) == LET d == t - TableAt(l.divLUTtab, idx)
                     IN TableAt(l.sinVal, idx + LUT_RES \div 4) - (d * TableAt(l.sinVal2PI, idx)) \div FracRes
                          - Quadratic(d, TableAt(l.sinVal2PIPI, idx + LUT_RES \div 4))

\* line 193: a whole number n >= 0 stored in a REAL4 (round to nearest even
\* on 24 bits); step is the spacing of the REAL4 values around n
RECURSIVE Float24(_, _)
Float24(n, step) == IF n \div step < FloatBits
                    THEN LET q == n \div step
                             rest == n % step
                         IN IF 2 * rest > step \/ (2 * rest = step /\ q % 2 = 1) THEN (q + 1) * step ELSE q * step
                    ELSE Float24(n, 2 * step)

\* line 125: tempInt1[alpha] = 2 * alpha * (spOrder + 1) + 1
TempInt1(par, alpha) == 2 * alpha * (par.spinDwnOrder + 1) + 1

\* lines 126-131: the sum over s < spOrder of spinDwn[s] * skyConst[tempInt1 + off + 2 s]
RECURSIVE SpinSum(_, _, _, _)
SpinSum(par, alpha, off, s) == IF s = 0 THEN R8(0, 0)
                               ELSE R8Add(SpinSum(par, alpha, off, s - 1),
                                          R8Times(At(par.spinDwn, s - 1), At(par.skyConst, TempInt1(par, alpha) + off + 2 * (s - 1))))

\* a slot of Fs->F, Fs->Fa or Fs->Fb: as the caller passed it, or written
Unset == [set |-> FALSE, val |-> 0]

Written(v) == [set |-> TRUE, val |-> v]

\* lines 79-132: the locals, the tables on the first call, the three
\* temporaries and the phase sums of every segment
DemodPrologue(par) == [pc |-> "bin", par |-> par, i |-> 0, alpha |-> 0, f |-> 0,
                       xSum |-> [x \in 1..par.SFTno |-> SpinSum(par, x - 1, 2, par.spinDwnOrder)],
                       ySum |-> [x \in 1..par.SFTno |-> SpinSum(par, x - 1, 1, par.spinDwnOrder)],
                       Fa |-> EmptyBag, Fb |-> EmptyBag,
                       F |-> [x \in 1..par.imax |-> Unset], FaOut |-> [x \in 1..par.imax |-> Unset], FbOut |-> [x \in 1..par.imax |-> Unset],
                       reads |-> {}, lutUse |-> {}, segs |-> {}, live |-> {"xSum", "ySum", "tempInt1"},
                       seg |-> [branch |-> "none"], status |-> "running"]

\* the first branch with every sample of the window taken raw
KernelTerms_AllRaw(alpha, branch, sftIndex, klim, tempFreq1, tsin, tcos) ==
    {[k |-> k, X |-> <<alpha, sftIndex + k>>,
      P |-> IF branch = "small" THEN [kind |-> "raw"]
            ELSE [kind |-> "kernel", tsin |-> tsin, tcos |-> tcos, x |-> tempFreq1 - k * FracRes]] : k \in 0..(klim - 1)}

\* lines 256-280 and 309-322: the terms of the kernel sum, one per k < klim:
\* the sample at sftIndex + k and its weight.  In the first branch the raw
\* sample is taken where x = 2 pi tempFreq1 is below SMALL (tempFreq1 = 0 in
\* the units of the model) and the sample times (tsin / x, tcos / x)
\* elsewhere; in the second every sample is taken times (tsin, tcos) * xinv
KernelTerms(alpha, branch, sftIndex, klim, tempFreq1, tsin, tcos) ==
    {[k |-> k, X |-> <<alpha, sftIndex + k>>,
      P |-> IF branch = "small" /\ tempFreq1 - k * FracRes = 0 THEN [kind |-> "raw"]
            ELSE [kind |-> "kernel", tsin |-> tsin, tcos |-> tcos, x |-> tempFreq1 - k * FracRes]] : k \in 0..(klim - 1)}

\* line 327: sftIndex - 1 > maxSFTindex, compared as UINT4: a negative left
\* side becomes a number above every INT4
UnsignedGreater(x, u) == IF x < 0 THEN TRUE ELSE x > u

\* lines 337-342: the term w[alpha] * Q * XP added to Fa (w = a) or Fb (w = b)
Contribution(w, alpha, Q, XP) == [w |-> <<w, alpha>>, Q |-> Q, XP |-> XP]

\* the value of sftIndex at line 327: the first branch advances it past the
\* window (line 259), the second walks the pointer Xalpha_k and leaves it
WindowEnd(branch, sftIndex, klim) == IF branch = "small" THEN sftIndex + klim ELSE sftIndex

\* lines 163-187 with the two checks of xTemp passed over
PhaseFails_Unchecked(xTemp) == FALSE

\* lines 166 and 177: !finite(xTemp), or xTemp < 0
PhaseFails(xTemp) == ~xTemp.fin \/ R8Negative(xTemp)

\* line 163: xTemp = f * skyConst[tempInt1[alpha]] + xSum[alpha]
XTemp(par, xSum, f, alpha) == R8Add(R8Times(f, At(par.skyConst, TempInt1(par, alpha))), At(xSum, alpha))

\* line 193: xTInt = (UINT4) xTemp, kept in a REAL4
XTInt(xTemp) == Float24(xTemp.int, 1)

\* line 195: tempFreq0 = xTemp - xTInt, in units of 1 / FracRes
TempFreq0(xTemp) == (xTemp.int - XTInt(xTemp)) * FracRes + xTemp.frac

\* lines 219-220: yRem = yTemp - (INT4) yTemp, the conversion truncating toward
\* zero, and yRem += 1.0f if yRem < 0; in units of 1 / FracRes
YRem(yTemp) == LET yInt == IF yTemp.int < 0 /\ yTemp.frac > 0 THEN yTemp.int + 1 ELSE yTemp.int
                   yRem0 == (yTemp.int - yInt) * FracRes + yTemp.frac
               IN IF yRem0 < 0 THEN yRem0 + FracRes ELSE yRem0

\* lines 148-343: one pass of the loop over the segments, for bin i and
\* segment alpha
SegmentBody(r, l, ub) ==
    LET par == r.par
        a == r.alpha
        xTemp == XTemp(par, r.xSum, r.f, a)
        xTInt == XTInt(xTemp)
        tempFreq0 == TempFreq0(xTemp)
        idx == LutIndex(tempFreq0, ub)
        tsin == LutSin(l, tempFreq0, idx)
        tcos == LutCos(l, tempFreq0, idx) - Scale
        yTemp == R8Add(R8Times(r.f, At(par.skyConst, TempInt1(par, a) - 1)), At(r.ySum, a))
        yRem == YRem(yTemp)
        yidx == LutIndex(yRem, ub)
        Q == [re |-> LutCos(l, yRem, yidx), im |-> -LutSin(l, yRem, yidx)]
        sftIndex == xTInt - par.Dterms + 1 - par.ifmin
        tempFreq1 == tempFreq0 + (par.Dterms - 1) * FracRes
        branch == IF tempFreq0 <= 0 THEN "small" ELSE "generic"
        klim == 2 * par.Dterms
        XP == KernelTerms(a, branch, sftIndex, klim, tempFreq1, tsin, tcos)
        seg == [branch |-> branch, xTemp |-> xTemp, tempFreq0 |-> tempFreq0, idx |-> idx, tsin |-> tsin, tcos |-> tcos,
                yTemp |-> yTemp, yRem |-> yRem, yidx |-> yidx, Q |-> Q, sftIndex |-> sftIndex, XP |-> XP]
        looked == [r EXCEPT !.lutUse = @ \cup {<<r.i, a>>}, !.seg = seg]
        summed == [looked EXCEPT !.reads = @ \cup {<<r.i, a, t.X[2]>> : t \in XP}]
    IN IF PhaseFails(xTemp)
       THEN [r EXCEPT !.pc = "exit", !.status = "COMPUTEFSTAT_EXIT_DEMOD", !.seg = [branch |-> "none", xTemp |-> xTemp]]
       ELSE IF sftIndex < 0
       THEN [looked EXCEPT !.pc = "abort", !.status = "COMPUTEFSTAT_EINPUT", !.seg.branch = "none"]
       ELSE IF UnsignedGreater(WindowEnd(branch, sftIndex, klim) - 1, par.maxSFTindex)
       THEN [summed EXCEPT !.pc = "abort", !.status = "COMPUTEFSTAT_EINPUT"]
       ELSE [summed EXCEPT !.Fa = @ (+) SetToBag({Contribution("a", a, Q, XP)}),
                           !.Fb = @ (+) SetToBag({Contribution("b", a, Q, XP)}),
                           !.segs = @ \cup {<<r.i, a>>},
                           !.alpha = @ + 1]

\* lines 346-350: (4 / (M D)) (B FaSq + A FbSq - 2 C FaFb), kept by its operands
FStatistic(M, Fa, Fb) == [scale |-> <<4, M, "D">>, FaSq |-> <<"B", Fa, Fa>>, FbSq |-> <<"A", Fb, Fb>>, FaFb |-> <<-2, "C", Fa, Fb>>]

\* lines 346-355: the statistic of bin i, and Fa, Fb if asked for
BinEnd(r) == [r EXCEPT !.F[r.i + 1] = Written(FStatistic(r.par.SFTno, r.Fa, r.Fb)),
                       !.FaOut[r.i + 1] = IF r.par.returnFaFb THEN Written(r.Fa) ELSE @,
                       !.FbOut[r.i + 1] = IF r.par.returnFaFb THEN Written(r.Fb) ELSE @,
                       !.i = @ + 1, !.pc = "bin"]

\* lines 138-143 with Fa and Fb carried over from the bin before
BinStart_NoReset(r) == [r EXCEPT !.f = r.par.f0 + r.i * r.par.df, !.alpha = 0, !.pc = "segment"]

\* lines 138-143: Fa = Fb = 0, f = f0 + i df
BinStart(r) == [r EXCEPT !.Fa = EmptyBag, !.Fb = EmptyBag, !.f = r.par.f0 + r.i * r.par.df, !.alpha = 0, !.pc = "segment"]

\* the sky constants of one segment, <<y, x>>: a fractional x, a whole x
\* with a negative y, a negative x (-1/4, which the spin-down sum 1/2 makes
\* up for in the first bins), a non-finite x, a half-integer x
SkyPairs == {<<R8(0, 33), R8(1, 1)>>, <<R8(-1, 96), R8(1, 0)>>, <<R8(0, 0), R8(-1, 96)>>, <<R8(0, 0), NonFinite>>, <<R8(0, 5), R8(2, 64)>>}

\* the sky constants of the first spin-down order, <<y, x>>
SpinPair == <<R8(0, 16), R8(0, 64)>>

\* skyConst: for each segment <<y, x>> and then the pairs of the spin-down orders
SkyConst(M, order, pairs) == [n \in 1..(2 * M * (order + 1)) |->
                                 LET alpha == (n - 1) \div (2 * (order + 1))
                                     off == (n - 1) % (2 * (order + 1))
                                 IN IF off < 2 THEN pairs[alpha + 1][off + 1] ELSE SpinPair[off - 1]]

DemodInputs(M) == {[SFTno |-> M, imax |-> imax, Dterms |-> Dterms, ifmin |-> ifmin, f0 |-> f0, df |-> 1,
                    spinDwnOrder |-> order, spinDwn |-> [x \in 1..order |-> 1], skyConst |-> SkyConst(M, order, pairs),
                    returnFaFb |-> fafb, maxSFTindex |-> MaxIndex] :
                      imax \in 0..MaxBins, Dterms \in {1, 2}, ifmin \in {0, 1}, f0 \in {1, 2}, order \in {0, 1},
                      pairs \in [1..M -> SkyPairs], fafb \in BOOLEAN}

DemodCall == /\ dm.pc = "idle"
             /\ \E M \in 1..MaxSegments : \E par \in DemodInputs(M) : dm' = DemodPrologue(par)
             /\ lut.calls < MaxCalls
             /\ lut' = [FillTables(lut) EXCEPT !.calls = @ + 1]
             /\ UNCHANGED notDemod

DemodBinStart == /\ dm.pc = "bin"
                 /\ dm.i < dm.par.imax
                 /\ dm' = BinStart(dm)
                 /\ UNCHANGED <<lut, notDemod>>

DemodSegment == /\ dm.pc = "segment"
                /\ dm.alpha < dm.par.SFTno
                /\ \E ub \in IndexOutcomes : dm' = SegmentBody(dm, lut, ub)
                /\ UNCHANGED <<lut, notDemod>>

DemodBinEnd == /\ dm.pc = "segment"
               /\ ~(dm.alpha < dm.par.SFTno)
               /\ dm' = BinEnd(dm)
               /\ UNCHANGED <<lut, notDemod>>

\* lines 360-364: the three temporaries freed, RETURN
DemodReturn == /\ dm.pc = "bin"
               /\ ~(dm.i < dm.par.imax)
               /\ dm' = [dm EXCEPT !.live = {}, !.pc = "done", !.status = "ok"]
               /\ UNCHANGED <<lut, notDemod>>

\* the caller takes the outputs of a call that returned (RETURN or ABORT; exit
\* ends the process) and may call again: the statics live on
DemodLeave == /\ dm.pc \in {"done", "abort"}
              /\ dm' = [pc |-> "idle"]
              /\ UNCHANGED <<lut, notDemod>>

(***************************************************************************)
(* The bin loops partitioned across threads                                *)
(*                                                                         *)
(* Thread w runs the body of the loop of line 219 of LALInspiralIIR.c, or  *)
(* of line 136 of TestLALDemod, for the bins w, w + NThreads, ...  The     *)
(* code before the loop and after it is run by the calling thread.  Every  *)
(* thread has its own copies of the variables declared in the routine;     *)
(* what the routine reaches through a pointer of its caller (ip, Fs->F,    *)
(* Fs->Fa, Fs->Fb) is one object for all threads.  A load of such an       *)
(* object and a store to it are separate steps.                            *)
(***************************************************************************)
Threads == 0..(NThreads - 1)

\* lines 219-228: the loop over the bins run by one thread, from bin r.j on
RECURSIVE IpLoop(_, _)
IpLoop(r, stray) == IF r.j < Len(r.psd) THEN IpLoop(IpBody(r, stray), stray) ELSE r

\* lines 212-217 run by the caller, then the locals of every thread at its
\* first bin; the field ip of a thread is what it loaded from *ip
ThIpPrologue(in) == [pc |-> "ip", in |-> in, ip |-> IpPrologue(in).ip, torn |-> FALSE,
                     t |-> [w \in Threads |-> [IpPrologue(in) EXCEPT !.j = w, !.pc = "bin"]]]

\* the filter banks of the partitioned loop: n filters, no delays
ThreadBanks(n) == {bank \in BankSet(n, n, n) : \A x \in 1..n : bank.delay[x] = 0}

ThIpCall == /\ th.pc = "idle"
            /\ \E n \in 1..MaxFilters, length \in 0..MaxBins :
                 \E bank \in ThreadBanks(n), psd \in PsdSet(length), prior \in PriorIp :
                    th' = ThIpPrologue(IpInput(bank, psd, prior))
            /\ UNCHANGED <<lut, notThreads>>

\* line 227, first half: *ip is loaded
ThIpLoad(w) == /\ th.pc = "ip"
               /\ th.t[w].pc = "bin"
               /\ th.t[w].j < Len(th.t[w].psd)
               /\ th' = [th EXCEPT !.t[w].ip = th.ip, !.t[w].pc = "store"]
               /\ UNCHANGED <<lut, notThreads>>

\* lines 221-227, second half: the term of the bin is added to what was
\* loaded and the sum is stored in *ip; torn records that *ip was stored to
\* between the load and the store
ThIpStore(w) == /\ th.pc = "ip"
                /\ th.t[w].pc = "store"
                /\ \E stray \in StraySet :
                     LET r == IpBody(th.t[w], stray)
                     IN th' = [th EXCEPT !.ip = r.ip, !.torn = @ \/ th.ip # th.t[w].ip,
                                         !.t[w] = [r EXCEPT !.j = th.t[w].j + NThreads, !.pc = "bin"]]
                /\ UNCHANGED <<lut, notThreads>>

\* line 230, once every thread is through its bins
ThIpJoin == /\ th.pc = "ip"
            /\ \A w \in Threads : th.t[w].pc = "bin" /\ ~(th.t[w].j < Len(th.t[w].psd))
            /\ th' = [th EXCEPT !.pc = "ipdone"]
            /\ UNCHANGED <<lut, notThreads>>

\* lines 136-358: the loop over the bins run by one thread, from the place
\* r.pc of bin r.i on
RECURSIVE DemodLoop(_, _, _)
DemodLoop(r, l, ub) == IF r.pc = "bin" /\ r.i < r.par.imax THEN DemodLoop(BinStart(r), l, ub)
                       ELSE IF r.pc = "segment" /\ r.alpha < r.par.SFTno THEN DemodLoop(SegmentBody(r, l, ub), l, ub)
                       ELSE IF r.pc = "segment" THEN DemodLoop(BinEnd(r), l, ub)
                       ELSE r

\* the arrays of the caller, Fs->F, Fs->Fa and Fs->Fb
Outputs(r) == [F |-> r.F, FaOut |-> r.FaOut, FbOut |-> r.FbOut]

\* the locals of a thread with arrays of its own in place of the caller's
View_OwnArrays(r, out) == r

\* lines 350-354: Fs is the caller's: the locals of a thread, with the
\* arrays of the caller as they are now
View(r, out) == [r EXCEPT !.F = out.F, !.FaOut = out.FaOut, !.FbOut = out.FbOut]

\* the inputs of the partitioned loop: MaxBins bins, one spin-down order
ThreadInputs(M) == {par \in DemodInputs(M) : par.imax = MaxBins /\ par.Dterms = 1 /\ par.ifmin = 0 /\ par.f0 = 1 /\ par.spinDwnOrder = 0}

\* lines 79-132 run by the caller, then the locals of every thread at its
\* first bin; order lists the bins in the order they were completed
ThDemodPrologue(par) == [pc |-> "demod", par |-> par, out |-> Outputs(DemodPrologue(par)), order |-> <<>>,
                         t |-> [w \in Threads |-> [DemodPrologue(par) EXCEPT !.i = w]]]

ThDemodCall == /\ th.pc = "idle"
               /\ \E M \in 1..MaxSegments : \E par \in ThreadInputs(M) : th' = ThDemodPrologue(par)
               /\ lut.calls < MaxCalls
               /\ lut' = [FillTables(lut) EXCEPT !.calls = @ + 1]
               /\ UNCHANGED notThreads

ThBinStart(w) == /\ th.pc = "demod"
                 /\ th.t[w].pc = "bin"
                 /\ th.t[w].i < th.par.imax
                 /\ th' = [th EXCEPT !.t[w] = BinStart(@)]
                 /\ UNCHANGED <<lut, notThreads>>

\* a pass of the loop over the segments; exit ends the process and ABORT
\* the call
ThSegment(w) == /\ th.pc = "demod"
                /\ th.t[w].pc = "segment"
                /\ th.t[w].alpha < th.par.SFTno
                /\ \E ub \in IndexOutcomes :
                     LET r == SegmentBody(th.t[w], lut, ub)
                     IN th' = [th EXCEPT !.t[w] = r, !.pc = IF r.pc \in {"exit", "abort"} THEN "failed" ELSE @]
                /\ UNCHANGED <<lut, notThreads>>

ThBinEnd(w) == /\ th.pc = "demod"
               /\ th.t[w].pc = "segment"
               /\ ~(th.t[w].alpha < th.par.SFTno)
               /\ LET r == BinEnd(View(th.t[w], th.out))
                  IN th' = [th EXCEPT !.out = Outputs(r), !.order = Append(@, th.t[w].i),
                                      !.t[w] = [r EXCEPT !.i = th.t[w].i + NThreads]]
               /\ UNCHANGED <<lut, notThreads>>

\* lines 360-364, once every thread is through its bins
ThDemodJoin == /\ th.pc = "demod"
               /\ \A w \in Threads : th.t[w].pc = "bin" /\ ~(th.t[w].i < th.par.imax)
               /\ th' = [th EXCEPT !.pc = "done"]
               /\ UNCHANGED <<lut, notThreads>>

(***************************************************************************)
(* The two table lookups of TestLALDemod, for one phase each               *)
(*                                                                         *)
(* The primary phase xTemp is a REAL8 on the grid of 1 / FracRes, small or *)
(* just around 2^24, where REAL4 stops holding every whole number.  The    *)
(* secondary phase yTemp is on the grid too, or is +-2^-e for an e around  *)
(* the 53 bits of a REAL8: [int, frac, tiny], tiny = e for +2^-e, -e for   *)
(* -2^-e and 0 for a phase on the grid.                                    *)
(***************************************************************************)
Y(int, frac, tiny) == [int |-> int, frac |-> frac, tiny |-> tiny]

\* lines 219-220 for a secondary phase that may be off the grid: the
\* remainder [frac, tiny], frac in units of 1 / FracRes.  -2^-e + 1.0 is
\* rounded to a REAL8: to 1.0 (ties to even) when e > MantissaBits
SecondaryRemainder(y) == IF y.tiny = 0 THEN [frac |-> YRem(R8(y.int, y.frac)), tiny |-> 0]
                         ELSE IF y.tiny > 0 THEN [frac |-> 0, tiny |-> y.tiny]
                         ELSE IF -y.tiny <= MantissaBits THEN [frac |-> FracRes, tiny |-> y.tiny]
                         ELSE [frac |-> FracRes, tiny |-> 0]

\* the cosine tables read LUT_RES / 2 entries above the sine tables
Touched_HalfPeriod(idx) == {<<"divLUTtab", idx>>, <<"sinVal", idx>>, <<"sinVal", idx + LUT_RES \div 2>>,
                            <<"sinVal2PI", idx>>, <<"sinVal2PI", idx + LUT_RES \div 2>>,
                            <<"sinVal2PIPI", idx>>, <<"sinVal2PIPI", idx + LUT_RES \div 2>>}

\* lines 199-203 and 224-226: the table entries one lookup reads; cosVal,
\* cosVal2PI and cosVal2PIPI point LUT_RES / 4 entries into the sine tables
\* (lines 110-112)
Touched(idx) == {<<"divLUTtab", idx>>, <<"sinVal", idx>>, <<"sinVal", idx + LUT_RES \div 4>>,
                 <<"sinVal2PI", idx>>, <<"sinVal2PI", idx + LUT_RES \div 4>>,
                 <<"sinVal2PIPI", idx>>, <<"sinVal2PIPI", idx + LUT_RES \div 4>>}

\* lines 198-203 or 223-226 for the fraction t: the index, the distance d to
\* the knot and the entries read
Lookup(t, l, ub) == LET idx == LutIndex(t, ub)
                    IN [t |-> t, idx |-> idx, d |-> t - TableAt(l.divLUTtab, idx), touched |-> Touched(idx)]

XTempSet == {R8(n, f) : n \in (0..MaxWhole) \cup ((FloatBits - 1)..(FloatBits + MaxWhole + 1)), f \in 0..(FracRes - 1)}

YTempSet == {Y(n, f, 0) : n \in (-MaxWhole)..MaxWhole, f \in 0..(FracRes - 1)}
              \cup {Y(0, 0, e) : e \in (MantissaBits - 1)..(MantissaBits + MaxWhole)}
              \cup {Y(0, 0, -e) : e \in (MantissaBits - 1)..(MantissaBits + MaxWhole)}

\* lines 104-118: a call, the tables filled if it is the first
LookCall == /\ look.pc = "idle"
            /\ lut.calls < MaxCalls
            /\ lut' = [FillTables(lut) EXCEPT !.calls = @ + 1]
            /\ look' = [pc |-> "ready"]
            /\ UNCHANGED notLookup

\* lines 193-205 for a finite xTemp >= 0
LookPrimary == /\ look.pc = "ready"
               /\ \E xTemp \in XTempSet, ub \in IndexOutcomes :
                    look' = [pc |-> "primary", xTemp |-> xTemp, xTInt |-> XTInt(xTemp)] @@ Lookup(TempFreq0(xTemp), lut, ub)
               /\ UNCHANGED <<lut, notLookup>>

\* lines 209-229 for a yTemp
LookSecondary == /\ look.pc = "ready"
                 /\ \E yTemp \in YTempSet, ub \in IndexOutcomes :
                      LET yRem == SecondaryRemainder(yTemp)
                      IN look' = [pc |-> "secondary", yTemp |-> yTemp, yRem |-> yRem] @@ Lookup(yRem.frac, lut, ub)
                 /\ UNCHANGED <<lut, notLookup>>

\* the call returns; the statics live on
LookLeave == /\ look.pc \in {"primary", "secondary"}
             /\ look' = [pc |-> "idle"]
             /\ UNCHANGED <<lut, notLookup>>

(***************************************************************************)
(* LALGeneratePPNAmpCorInspiral (CZeroPadAndFFTTest.c): the buffered       *)
(* generation loop.  The samples themselves decide only which termination  *)
(* condition fires, so one pass of the inner loop draws its outcome; the    *)
(* model keeps the counters n, nNext and nMax, the list of buffers and the  *)
(* termination code.  The heap holds at most MaxBuffers buffers: LALMalloc  *)
(* may fail at any call and must fail when the heap is full.                *)
(***************************************************************************)
PpnIdle == [pc |-> "idle", lengthIn |-> 0, n |-> 0, nNext |-> 0, nMax |-> 0, buffers |-> 0,
            termCode |-> "none", status |-> "ok", length |-> 0, afterLength |-> 0]

\* lines 1650-1652: nMax, (UINT4)(-1) without a lengthIn
NMax(lengthIn) == IF lengthIn > 0 THEN lengthIn ELSE NMaxUnlimited

\* lines 1653-1655 and 1840-1842: the end of the current buffer
Capped(nNext, nMax) == IF nNext > nMax THEN nMax ELSE nNext

\* the outcomes of one pass of the inner loop, lines 1669-1812
SampleOutcomes == {"EPNFAIL", "EFSTOP", "EFNOTMON", "ERTOOSMALL", "next"}

\* lines 1639-1666: the first buffer and the counters
PpnCall == /\ ppn.pc = "idle"
           /\ \E lengthIn \in 0..MaxLengthIn, ok \in BOOLEAN :
                ppn' = IF ok
                       THEN [PpnIdle EXCEPT !.pc = "inner", !.lengthIn = lengthIn, !.buffers = 1,
                                            !.nMax = NMax(lengthIn),
                                            !.nNext = Capped(BUFFSIZE, NMax(lengthIn))]
                       ELSE [PpnIdle EXCEPT !.pc = "abort", !.lengthIn = lengthIn, !.status = "EMEM"]
           /\ UNCHANGED notPpn

\* lines 1669-1812: one pass of the inner loop; the first three conditions
\* leave before the sample is stored, the fourth after n++
PpnSample == /\ ppn.pc = "inner"
             /\ ppn.n < ppn.nNext
             /\ \E outcome \in SampleOutcomes :
                  ppn' = CASE outcome \in {"EPNFAIL", "EFSTOP", "EFNOTMON"} ->
                                [ppn EXCEPT !.pc = "terminate", !.termCode = outcome]
                           [] outcome = "ERTOOSMALL" ->
                                [ppn EXCEPT !.pc = "terminate", !.termCode = outcome, !.n = @ + 1]
                           [] OTHER -> [ppn EXCEPT !.n = @ + 1]
             /\ UNCHANGED notPpn

\* lines 1817-1842: the inner loop is left with n = nNext; the length test
\* sets the code and falls through to the allocation of the next buffer
PpnBufferEnd == /\ ppn.pc = "inner"
                /\ ppn.n >= ppn.nNext
                /\ \E ok \in BOOLEAN :
                     LET coded == IF ppn.n >= ppn.nMax THEN [ppn EXCEPT !.termCode = "ELENGTH"] ELSE ppn
                         asked == [coded EXCEPT !.afterLength = IF coded.termCode = "ELENGTH" THEN @ + 1 ELSE @]
                     IN ppn' = IF ok /\ ppn.buffers < MaxBuffers
                               THEN [asked EXCEPT !.buffers = @ + 1,
                                                  !.nNext = Capped(@ + BUFFSIZE, ppn.nMax)]
                               ELSE [asked EXCEPT !.pc = "abort", !.status = "EMEM", !.buffers = 0]
                /\ UNCHANGED notPpn

\* lines 1855-1966: params->length, the output structures, and the copy
\* that frees the list; a failed allocation frees the list and aborts
PpnTerminate == /\ ppn.pc = "terminate"
                /\ \E ok \in BOOLEAN :
                     ppn' = IF ok
                            THEN [ppn EXCEPT !.pc = "done", !.length = ppn.n, !.buffers = 0]
                            ELSE [ppn EXCEPT !.pc = "abort", !.length = ppn.n, !.status = "EMEM", !.buffers = 0]
                /\ UNCHANGED notPpn

\* the call has returned
PpnLeave == /\ ppn.pc \in {"done", "abort"}
            /\ ppn' = PpnIdle
            /\ UNCHANGED notPpn

(***************************************************************************)
(* LALGetMultiCmplxAMCoeffs and XLALDestroyMultiCmplxAMCoeffs              *)
(* (ComplexAM.c).  A block of memory is named by what holds it; am.live is *)
(* the set of blocks allocated and not freed, am.slots is ret->data.  The  *)
(* store through ret->data[X] at line 209 is undefined when the LALCalloc  *)
(* of line 207 returned NULL: the model draws its outcome from a trap and  *)
(* a store that goes through.                                              *)
(***************************************************************************)
NullSlot == [node |-> FALSE, a |-> FALSE, b |-> FALSE]

AmIdle == [pc |-> "idle", numDetectors |-> 0, X |-> 0, slots |-> <<>>, live |-> {},
           out |-> "NULL", status |-> "ok", failure |-> FALSE]

\* the blocks one entry of ret->data holds
SlotBlocks(X, ok) == {<<kind, X>> : kind \in {k \in {"node", "a", "b"} : ok[k]}}

\* lines 246-279: the blocks XLALDestroyMultiCmplxAMCoeffs frees, an entry
\* only if it is not NULL and a vector only if its entry holds it
Destroyed(slots) == {<<"ret", 0>>, <<"data", 0>>}
                      \cup UNION {IF slots[X].node THEN SlotBlocks(X, slots[X]) ELSE {} : X \in 1..Len(slots)}

\* the outcomes of the store through a NULL ret->data[X]
NullStoreOutcomes == {"trap", "stored"}

\* lines 159-170: ret and ret->data
AmCall == /\ am.pc = "idle"
          /\ \E numDetectors \in 1..MaxDetectors, okRet \in BOOLEAN, okData \in BOOLEAN :
               am' = IF okRet /\ okData
                     THEN [AmIdle EXCEPT !.pc = "loop", !.numDetectors = numDetectors, !.X = 1,
                                         !.slots = [X \in 1..numDetectors |-> NullSlot],
                                         !.live = {<<"ret", 0>>, <<"data", 0>>}]
                     ELSE [AmIdle EXCEPT !.pc = "abort", !.numDetectors = numDetectors,
                                         !.status = "EMEM", !.failure = TRUE]
          /\ UNCHANGED notAm

\* lines 202-224: one detector
AmDetector == /\ am.pc = "loop"
              /\ am.X <= am.numDetectors
              /\ \E okNode \in BOOLEAN, okA \in BOOLEAN, okB \in BOOLEAN, okCoeffs \in BOOLEAN, null \in NullStoreOutcomes :
                   LET got == [node |-> okNode, a |-> okA, b |-> okB]
                       held == [am EXCEPT !.slots[am.X] = IF okNode THEN got ELSE NullSlot,
                                          !.live = @ \cup SlotBlocks(am.X, got),
                                          !.failure = @ \/ ~(okNode /\ okA /\ okB /\ okCoeffs)]
                   IN am' = CASE ~okNode /\ null = "trap" ->
                                   [am EXCEPT !.pc = "crash", !.failure = TRUE]
                              [] ~okNode /\ null = "stored" -> [held EXCEPT !.pc = "failed"]
                              [] okNode /\ ~(okA /\ okB /\ okCoeffs) -> [held EXCEPT !.pc = "failed"]
                              [] OTHER -> [held EXCEPT !.X = @ + 1,
                                                       !.pc = IF am.X = am.numDetectors THEN "success" ELSE "loop"]
              /\ UNCHANGED notAm

\* lines 228-231: failed
AmFailed == /\ am.pc = "failed"
            /\ am' = [am EXCEPT !.pc = "abort", !.status = "failed", !.live = @ \ Destroyed(am.slots)]
            /\ UNCHANGED notAm

\* lines 233-237: success
AmSuccess == /\ am.pc = "success"
             /\ am' = [am EXCEPT !.pc = "done", !.out = "ret"]
             /\ UNCHANGED notAm

\* the call has returned, or the process has ended
AmLeave == /\ am.pc \in {"done", "abort", "crash"}
           /\ am' = AmIdle
           /\ UNCHANGED notAm

Init == /\ gen = GenIdle
        /\ twin = GenIdle
        /\ rsp = RspIdle
        /\ again = RspIdle
        /\ ip = IpIdle
        /\ scaled = IpIdle
        /\ lut = LutInit
        /\ dm = [pc |-> "idle"]
        /\ th = [pc |-> "idle"]
        /\ look = [pc |-> "idle"]
        /\ ppn = PpnIdle
        /\ am = AmIdle

Next == \/ GenCall
        \/ GenIterate
        \/ GenReturn

Spec == Init /\ [][Next]_vars

NextResponse == \/ RespCall
                \/ RespFilter
                \/ RespReturn

SpecResponse == Init /\ [][NextResponse]_vars

NextTwice == \/ TwiceCall
             \/ RespFilter
             \/ RespReturn
             \/ AgainCall
             \/ AgainFilter
             \/ AgainReturn

SpecTwice == Init /\ [][NextTwice]_vars

NextDemod == \/ DemodCall
             \/ DemodBinStart
             \/ DemodSegment
             \/ DemodBinEnd
             \/ DemodReturn
             \/ DemodLeave

SpecDemod == Init /\ [][NextDemod]_vars

NextInner == \/ IpCall
             \/ IpBin
             \/ IpReturn

SpecInner == Init /\ [][NextInner]_vars

NextScaled == \/ ScaledCall
              \/ ScaledStep

SpecScaled == Init /\ [][NextScaled]_vars

NextThreads == \/ ThIpCall
               \/ \E w \in Threads : ThIpLoad(w)
               \/ \E w \in Threads : ThIpStore(w)
               \/ ThIpJoin
               \/ ThDemodCall
               \/ \E w \in Threads : ThBinStart(w)
               \/ \E w \in Threads : ThSegment(w)
               \/ \E w \in Threads : ThBinEnd(w)
               \/ ThDemodJoin

SpecThreads == Init /\ [][NextThreads]_vars

NextLookup == \/ LookCall
              \/ LookPrimary
              \/ LookSecondary
              \/ LookLeave

SpecLookup == Init /\ [][NextLookup]_vars

NextPpn == \/ PpnCall
           \/ PpnSample
           \/ PpnBufferEnd
           \/ PpnTerminate
           \/ PpnLeave

SpecPpn == Init /\ [][NextPpn]_vars

NextAm == \/ AmCall
          \/ AmDetector
          \/ AmFailed
          \/ AmSuccess
          \/ AmLeave

SpecAm == Init /\ [][NextAm]_vars

NextPair == \/ PairCall
            \/ PairStep

SpecPair == Init /\ [][NextPair]_vars

(***************************************************************************)
(* Properties of XLALInspiralGenerateIIRSet                                *)
(***************************************************************************)
GenN == Len(gen.amp)

\* C1: the delays of the filters appended so far are non-decreasing in
\* append order and each lies in [0, N-1], N the length of the envelope
C1_DelaysOrderedAndBounded == \A i \in 1..Len(gen.delay) :
                                 /\ gen.delay[i] >= 0
                                 /\ gen.delay[i] <= GenN - 1
                                 /\ i > 1 => gen.delay[i - 1] <= gen.delay[i]

C1_Witness == gen.pc = "done" /\ Len(gen.delay) >= 3 /\ gen.delay[3] > gen.delay[1]

\* C2: every appended filter was built with a step jstep >= 2, its decay
\* magnitude is exp(-beta / jstep), and for beta > 0 that exponent is
\* negative, so the magnitude is below 1
C2_StepAtLeastTwoAndStable == \A i \in 1..Len(gen.a1) :
                                 /\ gen.a1[i].lden >= 2
                                 /\ gen.a1[i].lnum = -gen.beta
                                 /\ gen.beta > 0 => gen.a1[i].lnum * gen.a1[i].lden < 0

\* a filter built with the forced step jstep = j, under beta > 0
C2_Witness == /\ gen.pc = "exit"
              /\ gen.beta > 0
              /\ gen.k < 1
              /\ gen.jstep = gen.j
              /\ Len(gen.a1) >= 2
              /\ gen.a1[Len(gen.a1)].lden = gen.j

\* C3: after every pass of the loop and on successful return a1, b0 and
\* delay have the same length, the number nfilters of filters appended, and
\* a pass that appends a filter grows each of them by exactly one
C3_EqualLengths == /\ [](gen.pc \in {"loop", "exit", "done"} =>
                            /\ Len(gen.a1) = gen.nfilters
                            /\ Len(gen.b0) = gen.nfilters
                            /\ Len(gen.delay) = gen.nfilters)
                   /\ [][gen.pc = "loop" /\ gen'.pc \in {"loop", "exit"} =>
                            /\ gen'.nfilters = gen.nfilters + 1
                            /\ Len(gen'.a1) = Len(gen.a1) + 1
                            /\ Len(gen'.b0) = Len(gen.b0) + 1
                            /\ Len(gen'.delay) = Len(gen.delay) + 1]_vars

C3_Witness == gen.pc = "done" /\ gen.nfilters = 3 /\ Len(gen.delay) = 3

\* C4: a call with amp and phase of different lengths fails with
\* XLAL_EINVAL, never enters the loop, and leaves *a1, *b0, *delay as the
\* caller had them
C4_MismatchFailsEarly == gen.pc # "idle" /\ Len(gen.amp) # Len(gen.phase) =>
                            /\ gen.pc = "error"
                            /\ gen.ret = XLAL_EINVAL
                            /\ gen.outptr = "caller"
                            /\ gen.nfilters = 0
                            /\ gen.a1 = <<>> /\ gen.b0 = <<>> /\ gen.delay = <<>>

C4_Witness == gen.pc = "error" /\ Len(gen.amp) = 6 /\ Len(gen.phase) = 7

\* C5: when the call fails because the anchor index k is negative, the
\* output vectors hold no filter appended by earlier passes of that call
C5_NoPartialResult == gen.pc = "error" /\ gen.k < 0 => Len(gen.a1) = 0 /\ Len(gen.b0) = 0 /\ Len(gen.delay) = 0

\* C6: two calls with the same amp, phase, epsilon, alpha and beta end with
\* the same status and the same a1, b0 and delay, whatever padding and
\* iir_type_flag each was given
C6_PaddingAndFlagIrrelevant == ~GenRunning(gen) /\ ~GenRunning(twin) =>
                                  /\ gen.pc = twin.pc
                                  /\ gen.ret = twin.ret
                                  /\ gen.outptr = twin.outptr
                                  /\ gen.a1 = twin.a1
                                  /\ gen.b0 = twin.b0
                                  /\ gen.delay = twin.delay

C6_Witness == /\ gen.pc = "done"
              /\ twin.pc = "done"
              /\ gen.padding # twin.padding
              /\ Len(gen.a1) >= 2
              /\ gen.a1 = twin.a1

\* the number of filters a call on an envelope of length n can append
FilterBound(n) == IF n <= 4 THEN 0 ELSE (n - 3) \div 2

\* C7: a call terminates, and it appends no filter when N <= 4 and at most
\* floor((N-3)/2) filters when N >= 5: every pass counts one more in
\* nfilters and lowers j by at least 2 from N-1, a further pass is entered
\* only with j > 3, after an anchor k >= 2 and a step jstep >= 2, and with
\* fewer passes than the bound made
C7_Terminates == /\ Len(gen.a1) <= FilterBound(GenN)
                 /\ gen.pc = "loop" => gen.nfilters = Len(gen.a1) /\ gen.j <= GenN - 1 - 2 * gen.nfilters
                 /\ gen.pc = "loop" /\ gen.j > 3 => gen.nfilters < FilterBound(GenN)
                 /\ gen.pc = "loop" /\ gen.nfilters > 0 => gen.k >= 2 /\ gen.jstep >= 2

C7_Witness == gen.pc = "done" /\ GenN = MaxN /\ Len(gen.a1) = FilterBound(MaxN)

(***************************************************************************)
(* Properties of XLALInspiralIIRSetResponse                                *)
(***************************************************************************)
RspL == Len(rsp.response)

\* C8: a call whose a1, b0 and delay are not all of one length fails with
\* XLAL_EBADLEN and leaves the response buffer as it was
C8_MismatchLeavesBuffer == rsp.pc # "idle" /\ (Len(rsp.a1) # Len(rsp.b0) \/ Len(rsp.a1) # Len(rsp.delay)) =>
                              /\ rsp.pc = "error"
                              /\ rsp.ret = XLAL_EBADLEN
                              /\ rsp.response = rsp.prior
                              /\ rsp.wrote = <<>>

C8_Witness == /\ rsp.pc = "error"
              /\ Len(rsp.a1) = 2
              /\ Len(rsp.delay) = 3
              /\ RspL = 3
              /\ rsp.response[1] = Garbage

\* C9: for each filter with delay >= 0 the indices written lie in
\* [delay, L): the length used is at most L - delay, a filter with
\* delay >= L writes nothing, no filter writes at an index >= L, and the
\* buffer keeps its length L
C9_WritesInsideBuffer == rsp.pc \in {"loop", "done"} =>
                            /\ RspL = Len(rsp.prior)
                            /\ \A f \in 1..rsp.f : rsp.delay[f] >= 0 =>
                                  /\ rsp.length[f] <= RspL - rsp.delay[f]
                                  /\ \A i \in rsp.wrote[f] : rsp.delay[f] <= i /\ i < RspL
                                  /\ rsp.delay[f] >= RspL => rsp.wrote[f] = {}
                            /\ \A f \in 1..rsp.f : \A i \in rsp.wrote[f] : i < RspL

\* one filter is cut by the cap and writes up to the last sample, another
\* lies beyond the buffer
C9_Witness == /\ rsp.pc = "done"
              /\ RspL = 3
              /\ rsp.f = 2
              /\ rsp.delay[1] = 1 /\ rsp.wrote[1] = {1, 2} /\ rsp.a1[1].lnum = -1
              /\ rsp.delay[2] = 4 /\ rsp.wrote[2] = {}

\* the samples filter f (from 1) contributes to: delay_f <= m < delay_f + len_f
Contributes(f, m) == rsp.delay[f] <= m /\ m - rsp.delay[f] < rsp.length[f]

\* b0_f * a1_f^(m - delay_f)
ResponseTerm(f, m) == ComplexProduct(rsp.b0[f], ComplexPower(rsp.a1[f], m - rsp.delay[f]))

\* the sum of the terms of all filters contributing to sample m (from 0)
ExpectedResponse(m) == LET F == {f \in 1..rsp.numFilters : Contributes(f, m)}
                           T == {ResponseTerm(f, m) : f \in F}
                       IN [t \in T |-> Cardinality({f \in F : ResponseTerm(f, m) = t})]

\* C10: after a successful call every sample m in [0, L) is the sum over
\* the filters f with delay_f <= m < delay_f + len_f of
\* b0_f * a1_f^(m - delay_f); the first term of a filter is b0_f itself
C10_ResponseIsSumOfDecays == rsp.pc = "done" =>
                                /\ \A m \in 0..(RspL - 1) : At(rsp.response, m) = ExpectedResponse(m)
                                /\ \A f \in 1..rsp.numFilters : rsp.length[f] > 0 => ResponseTerm(f, rsp.delay[f]) = rsp.b0[f]

\* two filters overlap on a sample of a buffer that held other values
C10_Witness == /\ rsp.pc = "done"
               /\ rsp.prior = [m \in 1..3 |-> Garbage]
               /\ rsp.numFilters = 2
               /\ rsp.delay = <<1, 0>>
               /\ rsp.length = <<2, 3>>
               /\ BagCardinality(rsp.response[3]) = 2

\* log(1e-13) = -13 log(10) = -29.9336..., as a fraction of its magnitude
DecayThreshold == [num |-> 299336, den |-> 10000]

\* log(1e-13) / log|a1| truncated, for a decaying a1 (log|a1| = lnum/lden < 0):
\* the number of samples whose magnitude |a1|^n is still at least 1e-13
SamplesAbove(a) == (DecayThreshold.num * a.lden) \div (DecayThreshold.den * (-a.lnum))

\* C11: the number of samples a decaying filter contributes, before the cap
\* at the end of the buffer, is log(1e-13) / log|a1| truncated to an integer
C11_LengthIsDecayTime == rsp.pc \in {"loop", "done"} => \A f \in 1..rsp.f : rsp.a1[f].lnum < 0 => rsp.uncapped[f] = SamplesAbove(rsp.a1[f])

\* C12: a call that passes the length check zeroes the whole buffer before
\* it accumulates, whatever the buffer held; a second call with the same
\* filter set on the buffer the first call left ends with the same buffer;
\* and no step of a call changes a1, b0 or delay
C12_ZeroedAndIdempotent == /\ [](rsp.pc = "loop" /\ rsp.f = 0 => \A m \in 1..RspL : rsp.response[m] = EmptyBag)
                           /\ [](again.pc = "done" =>
                                    /\ again.prior = rsp.response
                                    /\ again.response = rsp.response
                                    /\ again.a1 = rsp.a1 /\ again.b0 = rsp.b0 /\ again.delay = rsp.delay)
                           /\ [][rsp.pc # "idle" => rsp'.a1 = rsp.a1 /\ rsp'.b0 = rsp.b0 /\ rsp'.delay = rsp.delay]_vars
                           /\ [][again.pc # "idle" => again'.a1 = again.a1 /\ again'.b0 = again.b0 /\ again'.delay = again.delay]_vars

\* the second call ran on a buffer of non-zero sums, the first on other values
C12_Witness == /\ again.pc = "done"
               /\ rsp.prior = [m \in 1..3 |-> Garbage]
               /\ again.numFilters = 2
               /\ again.delay = <<1, 0>>
               /\ BagCardinality(again.prior[3]) = 2
               /\ BagCardinality(again.response[3]) = 2

(***************************************************************************)
(* Properties of XLALInspiralCalculateIIRSetInnerProduct                   *)
(***************************************************************************)
\* the sum B with every quotient divided by c
ScaleBag(B, c) == LET T == {[t EXCEPT !.den = c * @] : t \in BagToSet(B)}
                  IN [u \in T |-> CopiesIn([u EXCEPT !.den = @ \div c], B)]

\* C13: for a filter bank and a positive PSD, the call on the PSD times c
\* (c > 0) returns 1/c times what the call on the PSD returns, whatever *ip
\* held before either call: *ip is 0 when the loop over the bins starts
C13_InverseInPsd == /\ ip.pc = "loop" /\ ip.j = 0 => ip.ip = EmptyBag
                    /\ ip.pc = "done" /\ scaled.pc = "done" => scaled.ip = ScaleBag(ip.ip, scaled.c)

C13_Witness == /\ ip.pc = "done"
               /\ scaled.pc = "done"
               /\ scaled.c = 3
               /\ Len(ip.a1) = 2
               /\ ip.psd = <<1, 2>>
               /\ ip.prior # scaled.prior
               /\ BagCardinality(ip.ip) = 2
               /\ BagCardinality(scaled.ip) = 2

\* C14: a call whose a1, b0 and delay are not all of one length fails with
\* an invalid-argument code, reads no element past the end of b0 or delay
\* and returns no value in *ip
C14_MismatchIsRejected == ip.pc # "idle" /\ (Len(ip.a1) # Len(ip.b0) \/ Len(ip.a1) # Len(ip.delay)) =>
                             /\ ip.pc = "error"
                             /\ ip.ret = XLAL_EINVAL
                             /\ ip.oob = {}
                             /\ ip.ip = ip.prior

(***************************************************************************)
(* Properties of TestLALDemod                                              *)
(***************************************************************************)
Tables(l) == <<l.sinVal, l.sinVal2PI, l.sinVal2PIPI, l.divLUTtab>>

Millionth == Scale \div 1000000

\* C17: for every fraction x the table sine with its second-order
\* correction is within 1e-6 of sin(2 pi x), and the table cosine within
\* 1e-6 of cos(2 pi x): here for tsin and tcos + 1 of the segment last
\* evaluated, at x = tempFreq0
C17_LutWithinMillionth == dm.pc \in {"segment", "bin", "done", "abort"} /\ dm.seg.branch # "none" =>
                             /\ Abs(dm.seg.tsin - Sine(dm.seg.tempFreq0)) < Millionth
                             /\ Abs(dm.seg.tcos + Scale - Cosine(dm.seg.tempFreq0)) < Millionth

\* the bins, segments and (bin, segment) pairs of the call at work
Bins == 0..(dm.par.imax - 1)

Segments == 0..(dm.par.SFTno - 1)

ReadsOf(i, alpha) == {rd \in dm.reads : rd[1] = i /\ rd[2] = alpha}

\* C18: for a bin i and a segment alpha whose xTemp is not finite or is
\* negative the call stops at once with exit: no table is looked up and no
\* SFT sample is read for that pair, and F[i] is never written
C18_BadPhaseStopsBeforeAnyAccess ==
    dm.pc # "idle" =>
       /\ \A i \in Bins, alpha \in Segments :
             LET x == XTemp(dm.par, dm.xSum, dm.par.f0 + i * dm.par.df, alpha)
             IN ~x.fin \/ x.int < 0 =>
                  /\ <<i, alpha>> \notin dm.lutUse
                  /\ ReadsOf(i, alpha) = {}
                  /\ ~dm.F[i + 1].set /\ ~dm.FaOut[i + 1].set /\ ~dm.FbOut[i + 1].set
                  /\ dm.i <= i
                  /\ dm.pc \notin {"done", "abort"} \/ dm.i < i \/ (dm.i = i /\ dm.alpha < alpha)
       /\ dm.pc = "exit" =>
             /\ dm.status = "COMPUTEFSTAT_EXIT_DEMOD"
             /\ LET x == XTemp(dm.par, dm.xSum, dm.f, dm.alpha) IN ~x.fin \/ x.int < 0

\* the second segment of the second bin has a negative xTemp, after three
\* pairs that were evaluated
C18_Witness == /\ dm.pc = "exit"
               /\ dm.i = 1
               /\ dm.alpha = 1
               /\ dm.seg.xTemp.fin
               /\ dm.seg.xTemp.int < 0
               /\ dm.lutUse = {<<0, 0>>, <<0, 1>>, <<1, 0>>}
               /\ dm.F[1].set

\* C19: every index at which the kernel loop reads an SFT sample lies in
\* [0, maxSFTindex], in either branch: a window that starts below 0 or ends
\* above maxSFTindex is refused with COMPUTEFSTAT_EINPUT and not read
C19_ReadsInsideSFT == dm.pc # "idle" => \A rd \in dm.reads : 0 <= rd[3] /\ rd[3] <= dm.par.maxSFTindex

\* the sum fa holds one term w[s] * Q * XP for each segment s < n, each once,
\* with XP a sum over the 2 Dterms samples of a window of segment s
OncePerSegment(fa, w, n) == /\ BagCardinality(fa) = n
                            /\ \A s \in 0..(n - 1) : \E t \in BagToSet(fa) :
                                  /\ t.w = <<w, s>>
                                  /\ CopiesIn(t, fa) = 1
                                  /\ Cardinality(t.XP) = 2 * dm.par.Dterms
                                  /\ \A u \in t.XP : u.X[1] = s

\* C20: for every bin that completed, F[i] is
\* (4 / (M D)) (B |Fa|^2 + A |Fb|^2 - 2 C Re(Fa conj(Fb))) of sums Fa and Fb
\* that started from zero for that bin and took one term a Q XP, b Q XP from
\* each of the M segments; Fa[i] and Fb[i] are written exactly when
\* returnFaFb is set; the slots of the bins not completed are untouched and
\* a slot once written is not written again
C20_StatisticPerBin ==
    /\ [](dm.pc # "idle" =>
            /\ \A n \in 1..dm.par.imax : n > dm.i => ~dm.F[n].set /\ ~dm.FaOut[n].set /\ ~dm.FbOut[n].set
            /\ \A n \in 1..dm.i :
                  /\ dm.F[n].set
                  /\ LET fa == dm.F[n].val.FaSq[2]
                         fb == dm.F[n].val.FbSq[2]
                     IN /\ dm.F[n].val = [scale |-> <<4, dm.par.SFTno, "D">>, FaSq |-> <<"B", fa, fa>>, FbSq |-> <<"A", fb, fb>>, FaFb |-> <<-2, "C", fa, fb>>]
                        /\ OncePerSegment(fa, "a", dm.par.SFTno)
                        /\ OncePerSegment(fb, "b", dm.par.SFTno)
                        /\ \A t \in BagToSet(fa) : [t EXCEPT !.w = <<"b", t.w[2]>>] \in BagToSet(fb)
                        /\ dm.par.returnFaFb => dm.FaOut[n] = Written(fa) /\ dm.FbOut[n] = Written(fb)
                        /\ ~dm.par.returnFaFb => ~dm.FaOut[n].set /\ ~dm.FbOut[n].set
            /\ dm.pc = "segment" => OncePerSegment(dm.Fa, "a", dm.alpha) /\ OncePerSegment(dm.Fb, "b", dm.alpha))
    /\ [][dm.pc # "idle" /\ dm'.pc # "idle" =>
            \A n \in 1..dm.i : dm'.F[n] = dm.F[n] /\ dm'.FaOut[n] = dm.FaOut[n] /\ dm'.FbOut[n] = dm.FbOut[n]]_vars

C20_Witness == /\ dm.pc = "done"
               /\ dm.par.imax = 2
               /\ dm.par.SFTno = 2
               /\ dm.par.returnFaFb
               /\ dm.i = 2
               /\ dm.F[2].set
               /\ dm.FaOut[2].set
               /\ BagCardinality(dm.FaOut[2].val) = 2
               /\ dm.FaOut[1] # dm.FaOut[2]

\* the *ip and the output arrays the sequential loops leave
SequentialIp == IpLoop(IpPrologue(th.in), CHOOSE stray \in StraySet : TRUE).ip

SequentialOutputs == {Outputs(DemodLoop(DemodPrologue(th.par), lut, ub)) : ub \in IndexOutcomes}

\* two slots alike: both as the caller passed them, or both written with one value
SameSlot(p, q) == p.set = q.set /\ (p.set => p.val = q.val)

\* the arrays out are the arrays some sequential run leaves
IsSequential(out) == \E q \in SequentialOutputs : \A x \in DOMAIN out.F :
                        SameSlot(out.F[x], q.F[x]) /\ SameSlot(out.FaOut[x], q.FaOut[x]) /\ SameSlot(out.FbOut[x], q.FbOut[x])

CursorOf(i) == GenN - 1 - gen.delay[i]

\* C21 as stated: the cursor starts at N-2, so the first filter appended has
\* delay 1, and only positions j >= 4 are visited
C21_CursorFromSecondLast ==
    /\ gen.pc = "loop" /\ gen.nfilters = 0 => gen.j = GenN - 2
    /\ Len(gen.delay) >= 1 => gen.delay[1] = 1
    /\ \A i \in 1..Len(gen.delay) : CursorOf(i) >= 4

\* C21, amended: the cursor starts at N-1, the last sample, so the first
\* filter appended has delay 0; only positions j >= 4 are visited
C21_CursorFromLast ==
    /\ gen.pc = "loop" /\ gen.nfilters = 0 => gen.j = GenN - 1
    /\ Len(gen.delay) >= 1 => gen.delay[1] = 0
    /\ \A i \in 1..Len(gen.delay) : CursorOf(i) >= 4
    /\ gen.pc = "error" /\ gen.nfilters > 0 => gen.j >= 4

C21_Witness == gen.pc = "done" /\ Len(gen.delay) >= 2 /\ gen.delay[1] = 0 /\ CursorOf(Len(gen.delay)) = 4

\* the smaller of two step candidates, each a whole number or +inf
SmallerStep(x, y) == IF x.inf THEN y ELSE IF y.inf THEN x ELSE IF x.val <= y.val THEN x ELSE y

\* max(2, min(jstep_second, jstep_third)) at the cursor of r
FlooredMinimum(r) == LET m == SmallerStep(jstep_second(r), jstep_third(r))
                     IN IF m.inf THEN m ELSE [inf |-> FALSE, val |-> IF m.val < 2 THEN 2 ELSE m.val]

\* C22: in every pass of the loop the step chosen before the anchor is
\* computed is max(2, min(jstep_second, jstep_third))
C22_StepIsFlooredMinimum ==
    [][gen.pc = "loop" /\ gen.j > 3 /\ gen'.nfilters = gen.nfilters + 1
         => [inf |-> FALSE, val |-> gen'.chosen] = FlooredMinimum(gen)]_vars

\* the pass of the segment loop that dm.seg describes got as far as the kernel sum
Summed == dm.pc # "idle" /\ dm.seg.branch # "none"

\* the window of dm.seg: 2 Dterms samples from sftIndex on, one term each
WholeWindow == /\ Cardinality(dm.seg.XP) = 2 * dm.par.Dterms
               /\ {t.k : t \in dm.seg.XP} = 0..(2 * dm.par.Dterms - 1)
               /\ \A t \in dm.seg.XP : t.X[2] = dm.seg.sftIndex + t.k

\* x / 2 pi at term k, in units of 1 / FracRes: tempFreq0 + Dterms - 1 - k
KernelArgument(k) == dm.seg.tempFreq0 + (dm.par.Dterms - 1 - k) * FracRes

\* the term t is the sample times the kernel (tsin, tcos) / x
Weighted(t) == t.P = [kind |-> "kernel", tsin |-> dm.seg.tsin, tcos |-> dm.seg.tcos, x |-> KernelArgument(t.k)]

\* C23 as stated: with tempFreq0 below LD_SMALL the partial sum is the sum
\* of the raw samples of the window of 2 Dterms samples; else every sample of
\* the window is weighted by the kernel
C23_SmallOffsetSumsRawSamples ==
    Summed => /\ WholeWindow
              /\ dm.seg.tempFreq0 <= 0 => \A t \in dm.seg.XP : t.P.kind = "raw"
              /\ dm.seg.tempFreq0 > 0 => \A t \in dm.seg.XP : Weighted(t)

\* C23, amended: with tempFreq0 below LD_SMALL a sample of the window is
\* taken raw only where x = 2 pi tempFreq1 is itself below SMALL (the one
\* sample k = Dterms - 1 when tempFreq0 = 0) and every other sample is
\* weighted by (tsin, tcos) / x; else every sample is weighted by the kernel
C23_RawOnlyWhereKernelIsSingular ==
    Summed => /\ WholeWindow
              /\ dm.seg.branch = "small" <=> dm.seg.tempFreq0 <= 0
              /\ dm.seg.tempFreq0 <= 0 => \A t \in dm.seg.XP :
                                             IF KernelArgument(t.k) = 0 THEN t.P.kind = "raw" ELSE Weighted(t)
              /\ dm.seg.tempFreq0 > 0 => \A t \in dm.seg.XP : Weighted(t) /\ t.P.x # 0

C23_Witness == /\ Summed
               /\ dm.pc = "segment"
               /\ dm.seg.tempFreq0 = 0
               /\ dm.par.Dterms = 2
               /\ {t.k : t \in {u \in dm.seg.XP : u.P.kind = "raw"}} = {1}
               /\ <<dm.i, dm.alpha - 1>> \in dm.segs

\* C24: for every secondary phase yTemp within INT4, negative or not, the
\* remainder yRem used for the lookup lies in [0, 1) and is congruent to
\* yTemp modulo 1
C24_RemainderInUnitInterval ==
    look.pc = "secondary" =>
       /\ look.yRem.frac >= 0 /\ ~(look.yRem.frac = 0 /\ look.yRem.tiny < 0)
       /\ look.yRem.frac < FracRes \/ (look.yRem.frac = FracRes /\ look.yRem.tiny < 0)
       /\ (look.yRem.frac - (look.yTemp.int * FracRes + look.yTemp.frac)) % FracRes = 0
       /\ look.yRem.tiny = look.yTemp.tiny

\* the entries lines 105-117 filled: 0 .. (LUT_RES / 4) * 5 of the three sine
\* tables and 0 .. LUT_RES of divLUTtab
FilledEntries == IF lut.firstCall THEN {}
                 ELSE {<<tab, k>> : tab \in {"sinVal", "sinVal2PI", "sinVal2PIPI"}, k \in 0..((LUT_RES \div 4) * 5)}
                        \cup {<<"divLUTtab", k>> : k \in 0..LUT_RES}

\* C25: for a fractional phase in [0, 1] the table index lies in
\* [0, LUT_RES], the distance d to the knot is at most 1 / (2 LUT_RES) in
\* magnitude, and every table entry read is one the first call filled
C25_LookupInsideTables ==
    look.pc \in {"primary", "secondary"} /\ look.t >= 0 /\ look.t <= FracRes =>
       /\ look.idx \in 0..LUT_RES
       /\ look.d = look.t - 2 * look.idx
       /\ 2 * LUT_RES * Abs(look.d) <= FracRes
       /\ look.touched \subseteq FilledEntries

C25_Witness == /\ look.pc = "primary"
               /\ look.t = FracRes - 1
               /\ look.idx = LUT_RES
               /\ <<"sinVal2PIPI", LUT_RES + LUT_RES \div 4>> \in look.touched

\* C26: for every finite xTemp >= 0 the fraction tempFreq0 = xTemp - xTInt
\* lies in [0, 1), so the table index derived from it never exceeds LUT_RES
C26_PrimaryFractionInUnitInterval ==
    look.pc = "primary" => /\ look.t >= 0
                           /\ look.t < FracRes
                           /\ look.idx >= 0
                           /\ look.idx <= LUT_RES

\* C27: every sample of phase or amp read so far is inside the envelope
C27_ReadsInsideEnvelope == \A rd \in gen.reads : rd[2] >= 0 /\ rd[2] <= GenN - 1

\* a call on an envelope of N >= 5 samples that read the last sample of
\* phase and, with the forward stencil at k = 1, the samples 1 to 4
C27_Witness == /\ gen.pc = "done"
               /\ GenN >= 5
               /\ gen.k = 1
               /\ {<<"phase", 1>>, <<"phase", 4>>, <<"phase", GenN - 1>>, <<"amp", 1>>} \subseteq gen.reads

\* C28: once TestLALDemod has returned, by RETURN or by either ABORT of the
\* segment loop, none of the temporaries xSum, ySum, tempInt1 is still allocated
C28_TemporariesReleased == dm.pc \in {"done", "abort"} => dm.live = {}


(***************************************************************************)
(* C29: in LALGeneratePPNAmpCorInspiral, once n has reached nMax and the   *)
(* code ELENGTH is set, the generation loop asks for no further buffer: it *)
(* goes to the cleanup, so the call returns with params->length at most    *)
(* lengthIn.                                                               *)
(***************************************************************************)
C29_LengthStopsGeneration == ppn.termCode = "ELENGTH" => /\ ppn.afterLength = 0
                                                         /\ ppn.pc \in {"terminate", "done"}

\* the other termination conditions do reach the cleanup, with a length
\* that respects lengthIn
C29_OtherCodesReturnLength == (ppn.pc = "done" /\ ppn.lengthIn > 0) => /\ ppn.length <= ppn.lengthIn
                                                                      /\ ppn.termCode # "ELENGTH"

(***************************************************************************)
(* C30: when an allocation or a call of LALGetCmplxAMCoeffs fails inside   *)
(* LALGetMultiCmplxAMCoeffs, the call ends aborted with an error status,   *)
(* every block it allocated is freed and *multiAMcoef is NULL.             *)
(***************************************************************************)
C30_FailureFreesEverything == (am.failure /\ am.pc \in {"abort", "crash", "done"}) => /\ am.pc = "abort"
                                                                                    /\ am.status # "ok"
                                                                                    /\ am.live = {}
                                                                                    /\ am.out = "NULL"

\* what the code does keep: *multiAMcoef is assigned on the success path only,
\* and a failure with every entry of ret->data allocated frees every block
C30_AssignedOnSuccessOnly == /\ am.out = "ret" => (am.pc = "done" /\ ~am.failure)
                             /\ (am.pc = "abort" /\ \A X \in 1..Len(am.slots) : am.slots[X].node \/ X > am.X)
                                  => (am.live = {} /\ am.out = "NULL")

====
